---- MODULE Spec2Model ----
(***************************************************************************)
(* A model of conda/core/link.py: the UnlinkLinkTransaction facade         *)
(* (download_and_extract, prepare, verify, execute), its planner           *)
(* (_prepare, make_unlink_actions, _make_link_actions), its verifier       *)
(* (_verify and the three levels) and its executor (_execute,              *)
(* _execute_actions, _execute_post_link_actions, _reverse_actions,         *)
(* run_script).  Package records, paths and prefixes are drawn from small  *)
(* tables; the action classes of path_actions.py, the fetcher and the disk *)
(* gateways are not part of link.py and are modelled by their contracts.   *)
(***************************************************************************)
EXTENDS Integers, Sequences, FiniteSets, TLC

VARIABLES
    context,               \* the global configuration link.py reads (context.*)
    prefix_setups,         \* self.prefix_setups: the PrefixSetup tuples, in order
    disk,                  \* per prefix: the paths that exist below it
    writable,              \* per prefix: whether conda-meta/history can be opened for append
    cache_missing,         \* (dist, file) pairs the extracted package cache entry lacks
    action_verified,       \* the actions whose verified flag is set
    pfe_executed,          \* self._pfe is not None and self._pfe._executed
    prepared,              \* self._prepared
    verified,              \* self._verified
    prefix_action_groups,  \* self.prefix_action_groups: one PrefixActionGroup per setup
    transaction_context,   \* self.transaction_context
    last_call,             \* the last facade call: its name, the context it saw, its outcome
    verify_out,            \* what the last run of _verify returned and which checks it ran
    ex,                    \* the executor's position inside _execute
    change_report          \* the ChangeReport of every setup, once the summary was printed

vars == <<context, prefix_setups, disk, writable, cache_missing, action_verified, pfe_executed, prepared,
          verified, prefix_action_groups, transaction_context, last_call,
          verify_out, ex, change_report>>

(***************************************************************************)
(* Bounds of the model.                                                    *)
(***************************************************************************)
MaxFailures == 2        \* action.execute() / script failures in one execute()
MaxReverseFailures == 1 \* action.reverse() failures in one execute()

(***************************************************************************)
(* Sequence helpers.                                                       *)
(***************************************************************************)
Range(s) == {s[i] : i \in DOMAIN s}

RECURSIVE concat(_)
concat(ss) == IF ss = <<>> THEN <<>> ELSE Head(ss) \o concat(Tail(ss))

Map(s, F(_)) == [i \in DOMAIN s |-> F(s[i])]

reversed(s) == [i \in 1..Len(s) |-> s[Len(s) + 1 - i]]

\* first(seq, key): the first element satisfying key, or the default
FirstIdx(s, P(_)) ==
    IF \E i \in DOMAIN s : P(s[i])
    THEN CHOOSE i \in DOMAIN s : P(s[i]) /\ \A j \in 1..(i-1) : ~P(s[j])
    ELSE 0

(***************************************************************************)
(* Prefixes.  conda's own prefixes are root_prefix and                     *)
(* root_prefix/envs/_conda_.                                               *)
(***************************************************************************)
root_prefix == "root"
conda_env_prefix == "root/envs/_conda_"
other_prefix == "env"
Prefixes == {root_prefix, conda_env_prefix, other_prefix}
conda_prefixes == <<conda_env_prefix, root_prefix>>

(***************************************************************************)
(* Package records.  A record is named by its dist string; its fields are  *)
(* read from these tables.                                                 *)
(***************************************************************************)
Pythons == {"python-2.7.15", "python-3.7.1", "python-3.10.2"}

Dists == {"conda-1", "conda-2", "dep-1", "old-1", "a-1", "b-1", "c-1", "m-1"} \cup Pythons

prec_name(d) ==
    CASE d \in {"conda-1", "conda-2"} -> "conda"
      [] d = "dep-1" -> "dep"
      [] d = "old-1" -> "old"
      [] d = "a-1" -> "a"
      [] d = "b-1" -> "b"
      [] d = "c-1" -> "c"
      [] d \in {"p-1.0-0", "p-1.0-0@prefix", "p-1.0-1", "p-1.0.0-0", "p-2.0-0",
                "p-1.0-0-forge", "p-1.0-0-noarch"} -> "p"
      [] d = "q-1.0-0" -> "q"
      [] d \in Pythons -> "python"
      [] d = "m-1" -> "m"

\* prec.version, prec.build_number, prec.channel.name and prec.subdir
prec_version(d) ==
    CASE d = "p-1.0.0-0" -> "1.0.0"
      [] d = "p-2.0-0" -> "2.0"
      [] d = "python-2.7.15" -> "2.7.15"
      [] d = "python-3.7.1" -> "3.7.1"
      [] d = "python-3.10.2" -> "3.10.2"
      [] OTHER -> "1.0"

prec_build_number(d) == IF d = "p-1.0-1" THEN 1 ELSE 0

prec_channel_name(d) == IF d = "p-1.0-0-forge" THEN "conda-forge" ELSE "main"

prec_subdir(d) == IF d = "p-1.0-0-noarch" THEN "noarch" ELSE "linux-64"

\* prec.namekey
namekey(d) == prec_name(d)

\* PackageRecord.__eq__: the records have the same key
prec_eq(d, e) ==
    <<prec_channel_name(d), prec_subdir(d), prec_name(d), prec_version(d),
      prec_build_number(d)>> =
    <<prec_channel_name(e), prec_subdir(e), prec_name(e), prec_version(e),
      prec_build_number(e)>>

\* VersionOrder(version): trailing zeros do not count
VersionOrder(version) ==
    CASE version \in {"1.0", "1.0.0"} -> 1
      [] version = "2.0" -> 2

\* prec.depends: match-spec strings
prec_depends(d) ==
    CASE d \in {"conda-1", "conda-2"} -> <<"dep >=1">>
      [] OTHER -> <<>>

\* MatchSpec(s).name
MatchSpec_name(s) ==
    CASE s = "dep >=1" -> "dep"
      [] OTHER -> s

\* prec.files / the files manifest of the package: short paths, in manifest order
prec_files(d) ==
    CASE d = "conda-1" -> <<"bin/conda">>
      [] d = "conda-2" -> <<"bin/conda">>
      [] d = "dep-1" -> <<"lib/dep">>
      [] d = "old-1" -> <<"lib/a">>
      [] d = "a-1" -> <<"lib/a">>
      [] d = "b-1" -> <<"lib/A", "lib/sub/b">>
      [] d = "c-1" -> <<"lib/sub/b">>
      [] d \in Pythons -> <<"bin/python">>
      [] d = "m-1" -> <<"Menu/m.json", "lib/m">>

\* the .pyc files CompileMultiPycAction will write for the package
prec_pyc(d) ==
    CASE d = "a-1" -> <<"lib/a.pyc">>
      [] d = "c-1" -> <<"lib/c.pyc">>
      [] OTHER -> <<>>

\* the entry point scripts CreatePythonEntryPointAction will write
prec_entry_points(d) ==
    CASE d = "a-1" -> <<"bin/a">>
      [] OTHER -> <<>>

\* A variant of record_files: the record lists the linked files only
record_files_linked_only(d) == prec_files(d)

\* prefix_record.files of an installed package: the paths of all the link path actions
\* its record was created with (the link, the compile and the entry point actions)
record_files(d) == prec_files(d) \o prec_pyc(d) \o prec_entry_points(d)

\* the package ships a .<name>-<action>.sh script for these actions
prec_scripts(d) ==
    CASE d = "old-1" -> {"pre-unlink", "post-unlink"}
      [] d = "a-1" -> {"pre-link", "post-link"}
      [] d = "dep-1" -> {"pre-unlink", "post-link"}
      [] OTHER -> {}

(***************************************************************************)
(* Paths: dirname, str.lower and the order sorted() gives them.            *)
(***************************************************************************)
dirname(p) ==
    CASE p \in {"lib/a", "lib/A", "lib/dep", "lib/a.pyc", "lib/c.pyc", "lib/sub",
                "lib/m"} -> "lib"
      [] p = "Menu/m.json" -> "Menu"
      [] p = "lib/sub/b" -> "lib/sub"
      [] p \in {"bin/conda", "bin/a", "bin/python"} -> "bin"
      [] p \in {"conda-meta/history"} -> "conda-meta"
      [] OTHER -> ""

lower(p) ==
    CASE p = "lib/A" -> "lib/a"
      [] OTHER -> p

\* the rank of a directory in sorted(): "bin" < "lib" < "lib/sub"
dir_rank(p) ==
    CASE p = "bin" -> 1
      [] p = "lib" -> 2
      [] p = "lib/sub" -> 3
      [] OTHER -> 0

\* sorted(dirs): ascending by rank; sorted(dirs, reverse=True) is its reverse
RECURSIVE sorted_dirs(_)
sorted_dirs(S) ==
    IF S = {} THEN <<>>
    ELSE LET m == CHOOSE d \in S : \A e \in S : dir_rank(d) <= dir_rank(e)
         IN <<m>> \o sorted_dirs(S \ {m})

\* explode_directories(get_all_directories(paths)): every directory above a path
RECURSIVE ancestors(_)
ancestors(p) == IF dirname(p) = "" THEN {} ELSE {dirname(p)} \cup ancestors(dirname(p))

explode_directories(paths) == UNION {ancestors(p) : p \in Range(paths)}

\* 'conda-meta/<dist>.json'
meta_short_path(d) ==
    CASE d = "conda-1" -> "conda-meta/conda-1.json"
      [] d = "conda-2" -> "conda-meta/conda-2.json"
      [] d = "dep-1" -> "conda-meta/dep-1.json"
      [] d = "old-1" -> "conda-meta/old-1.json"
      [] d = "a-1" -> "conda-meta/a-1.json"
      [] d = "b-1" -> "conda-meta/b-1.json"
      [] d = "c-1" -> "conda-meta/c-1.json"
      [] d = "m-1" -> "conda-meta/m-1.json"
      [] d = "python-2.7.15" -> "conda-meta/python-2.7.15.json"
      [] d = "python-3.7.1" -> "conda-meta/python-3.7.1.json"
      [] d = "python-3.10.2" -> "conda-meta/python-3.10.2.json"

PREFIX_MAGIC_FILE == "conda-meta/history"
conda_meta_dir == "conda-meta"
prefix_dir == "."

MetaPaths == {meta_short_path(d) : d \in Dists}
temp_dir_name == ".condatmp"
Directories == {"bin", "lib", "lib/sub", "Menu", conda_meta_dir, prefix_dir, temp_dir_name}

(***************************************************************************)
(* The disk gateways and PrefixData, read from the disk state.             *)
(***************************************************************************)
\* lexists(join(prefix, path)): the file system of Windows ignores case
lexists(prefix, path) ==
    IF context.on_win THEN \E q \in disk[prefix] : lower(q) = lower(path)
    ELSE path \in disk[prefix]

isdir(prefix, path) == path \in disk[prefix] /\ path \in Directories

\* PrefixData(prefix).iter_records(): the records of conda-meta/*.json, as a sequence
RECURSIVE set_to_seq(_)
set_to_seq(S) ==
    IF S = {} THEN <<>>
    ELSE LET d == CHOOSE x \in S : TRUE IN <<d>> \o set_to_seq(S \ {d})

iter_records(prefix) == set_to_seq({d \in Dists : meta_short_path(d) \in disk[prefix]})

\* PrefixData(prefix).get(name): the installed record of that name, or None
PrefixData_get(prefix, name) ==
    LET recs == iter_records(prefix)
        i == FirstIdx(recs, LAMBDA d : prec_name(d) = name)
    IN IF i = 0 THEN "None" ELSE recs[i]

\* get_major_minor_version(version): the first two components, with the dot
get_major_minor_version(version) ==
    CASE version = "2.7.15" -> "2.7"
      [] version = "3.7.1" -> "3.7"
      [] version = "3.10.2" -> "3.10"
      [] OTHER -> version

\* get_python_version_for_prefix(prefix): of the installed record named python, or None
get_python_version_for_prefix(prefix) ==
    LET python == PrefixData_get(prefix, "python")
    IN IF python = "None" THEN "None"
       ELSE get_major_minor_version(prec_version(python))

\* get_python_site_packages_short_path(python_version)
get_python_site_packages_short_path(python_version) ==
    IF python_version = "None" THEN "None"
    ELSE IF context.on_win THEN "Lib/site-packages"
    ELSE CASE python_version = "2.7" -> "lib/python2.7/site-packages"
           [] python_version = "3.7" -> "lib/python3.7/site-packages"
           [] python_version = "3.10" -> "lib/python3.10/site-packages"

(***************************************************************************)
(* Actions and action groups.  An action is a record; the classes of       *)
(* path_actions.py are told apart by cls.                                  *)
(***************************************************************************)
Action(cls, pkg, prefix, path, link_type) ==
    [cls |-> cls, pkg |-> pkg, target_prefix |-> prefix, target_short_path |-> path,
     link_type |-> link_type, target_short_paths |-> <<>>, all_link_path_actions |-> <<>>]

ActionGroup(type, pkg_data, actions, target_prefix) ==
    [type |-> type, pkg_data |-> pkg_data, actions |-> actions,
     target_prefix |-> target_prefix]

\* the menu files among the files of the package
MENU_RE(path) == path \in {"Menu/m.json"}

\* RemoveMenuAction.create_actions / MakeMenuAction.create_actions: on Windows, one
\* action per menu file
RemoveMenuAction_create_actions(prefix, rec) ==
    IF context.on_win
    THEN Map(SelectSeq(record_files(rec), MENU_RE),
             LAMBDA trgt : Action("RemoveMenuAction", rec, prefix, trgt, "file"))
    ELSE <<>>

MakeMenuAction_create_actions(prefix, d) ==
    IF context.on_win
    THEN Map(SelectSeq(prec_files(d), MENU_RE),
             LAMBDA trgt : Action("MakeMenuAction", d, prefix, trgt, "file"))
    ELSE <<>>

\* CreateNonadminAction.create_actions: a marker on Windows when root has one
CreateNonadminAction_create_actions(prefix, d) ==
    IF context.on_win /\ ".nonadmin" \in disk[root_prefix]
    THEN <<Action("CreateNonadminAction", d, prefix, ".nonadmin", "file")>>
    ELSE <<>>

LinkPathAction_create_file_link_actions(prefix, d) ==
    Map(prec_files(d), LAMBDA f : Action("LinkPathAction", d, prefix, f, "hardlink"))

LinkPathAction_create_directory_actions(prefix, d, file_link_actions) ==
    Map(sorted_dirs(explode_directories(Map(file_link_actions,
                                            LAMBDA a : a.target_short_path))),
        LAMBDA dir : Action("LinkPathAction", d, prefix, dir, "directory"))

CreatePythonEntryPointAction_create_actions(prefix, d) ==
    Map(prec_entry_points(d),
        LAMBDA f : Action("CreatePythonEntryPointAction", d, prefix, f, "file"))

CompileMultiPycAction_create_actions(prefix, d, file_link_actions) ==
    IF prec_pyc(d) = <<>> THEN <<>>
    ELSE <<[Action("CompileMultiPycAction", d, prefix, "", "file")
              EXCEPT !.target_short_paths = prec_pyc(d)]>>

CreatePrefixRecordAction_create_actions(prefix, d, all_link_path_actions) ==
    <<[Action("CreatePrefixRecordAction", d, prefix, meta_short_path(d), "file")
         EXCEPT !.all_link_path_actions = all_link_path_actions]>>

UpdateHistoryAction_create_actions(prefix) ==
    <<Action("UpdateHistoryAction", "None", prefix, PREFIX_MAGIC_FILE, "file")>>

(***************************************************************************)
(* The planner.                                                            *)
(***************************************************************************)
\* A variant that leaves the conda-meta record of the package in place
make_unlink_actions_keep_record(target_prefix, prefix_record) ==
    Map(record_files(prefix_record),
        LAMBDA trgt : Action("UnlinkPathAction", prefix_record, target_prefix,
                             trgt, "hardlink"))

\* A variant that removes the record before the directories
make_unlink_actions_record_early(target_prefix, prefix_record) ==
    LET unlink_path_actions ==
            Map(record_files(prefix_record),
                LAMBDA trgt : Action("UnlinkPathAction", prefix_record, target_prefix,
                                     trgt, "hardlink"))
        all_directories ==
            reversed(sorted_dirs(explode_directories(
                Map(unlink_path_actions, LAMBDA axn : axn.target_short_path))))
    IN RemoveMenuAction_create_actions(target_prefix, prefix_record)
         \o unlink_path_actions
         \o <<Action("RemoveLinkedPackageRecordAction", prefix_record, target_prefix,
                     meta_short_path(prefix_record), "file")>>
         \o Map(all_directories,
                LAMBDA d : Action("UnlinkPathAction", prefix_record, target_prefix,
                                  d, "directory"))

make_unlink_actions(target_prefix, prefix_record) ==
    LET unlink_path_actions ==
            Map(record_files(prefix_record),
                LAMBDA trgt : Action("UnlinkPathAction", prefix_record, target_prefix,
                                     trgt, "hardlink"))
        remove_menu_actions == RemoveMenuAction_create_actions(target_prefix, prefix_record)
        remove_conda_meta_actions ==
            <<Action("RemoveLinkedPackageRecordAction", prefix_record, target_prefix,
                     meta_short_path(prefix_record), "file")>>
        all_directories ==
            reversed(sorted_dirs(explode_directories(
                Map(unlink_path_actions, LAMBDA axn : axn.target_short_path))))
        directory_remove_actions ==
            Map(all_directories,
                LAMBDA d : Action("UnlinkPathAction", prefix_record, target_prefix,
                                  d, "directory"))
    IN remove_menu_actions \o unlink_path_actions \o directory_remove_actions
         \o remove_conda_meta_actions

\* A variant that links the files before it creates their directories
_make_link_actions_files_first(target_prefix, package_info) ==
    LET file_link_actions == LinkPathAction_create_file_link_actions(target_prefix,
                                                                     package_info)
        create_directory_actions ==
            LinkPathAction_create_directory_actions(target_prefix, package_info,
                                                    file_link_actions)
    IN file_link_actions \o create_directory_actions
         \o CreateNonadminAction_create_actions(target_prefix, package_info)
         \o MakeMenuAction_create_actions(target_prefix, package_info)

_make_link_actions(target_prefix, package_info) ==
    LET file_link_actions == LinkPathAction_create_file_link_actions(target_prefix,
                                                                     package_info)
        create_directory_actions ==
            LinkPathAction_create_directory_actions(target_prefix, package_info,
                                                    file_link_actions)
        create_nonadmin_actions == CreateNonadminAction_create_actions(target_prefix,
                                                                       package_info)
        create_menu_actions == MakeMenuAction_create_actions(target_prefix, package_info)
    IN create_directory_actions \o file_link_actions \o create_nonadmin_actions
         \o create_menu_actions

_make_entry_point_actions(target_prefix, package_info) ==
    CreatePythonEntryPointAction_create_actions(target_prefix, package_info)

_make_compile_actions(target_prefix, package_info, link_action_groups) ==
    LET i == FirstIdx(link_action_groups, LAMBDA ag : ag.pkg_data = package_info)
    IN CompileMultiPycAction_create_actions(target_prefix, package_info,
                                            link_action_groups[i].actions)

\* A variant that keeps the installed python although it is unlinked
_get_python_version_of_prefix_first(target_prefix, pcrecs_to_unlink, packages_info_to_link) ==
    LET i == FirstIdx(packages_info_to_link, LAMBDA d : prec_name(d) = "python")
    IN IF i # 0 THEN get_major_minor_version(prec_version(packages_info_to_link[i]))
       ELSE get_python_version_for_prefix(target_prefix)

\* the python version the prefix will have at the end of the transaction
_get_python_version(target_prefix, pcrecs_to_unlink, packages_info_to_link) ==
    LET i == FirstIdx(packages_info_to_link, LAMBDA d : prec_name(d) = "python")
        linked_python_version == get_python_version_for_prefix(target_prefix)
        unlinking_this_python ==
            FirstIdx(pcrecs_to_unlink, LAMBDA lnkd : prec_name(lnkd) = "python")
    IN IF i # 0 THEN get_major_minor_version(prec_version(packages_info_to_link[i]))
       ELSE IF linked_python_version # "None" /\ unlinking_this_python = 0
       THEN linked_python_version
       ELSE "None"

\* prefix_recs_to_unlink of _prepare: the installed records of the names to unlink
prefix_recs_to_unlink_of(target_prefix, unlink_precs) ==
    SelectSeq(Map(unlink_precs,
                  LAMBDA prec : PrefixData_get(target_prefix, prec_name(prec))),
              LAMBDA lpd : lpd # "None")

\* The PrefixActionGroup _prepare returns for one setup
_prepare(target_prefix, unlink_precs, link_precs) ==
    LET prefix_recs_to_unlink == prefix_recs_to_unlink_of(target_prefix, unlink_precs)
        unlink_action_groups ==
            Map(prefix_recs_to_unlink,
                LAMBDA rec : ActionGroup("unlink", rec,
                                         make_unlink_actions(target_prefix, rec),
                                         target_prefix))
        unregister_action_groups ==
            IF unlink_action_groups # <<>>
            THEN <<ActionGroup("unregister", "None",
                               <<Action("UnregisterEnvironmentLocationAction", "None",
                                        target_prefix, "", "file")>>,
                               target_prefix)>>
            ELSE <<>>
        link_action_groups ==
            Map(link_precs,
                LAMBDA d : ActionGroup("link", d, _make_link_actions(target_prefix, d),
                                       target_prefix))
        entry_point_action_groups ==
            Map(link_precs,
                LAMBDA d : ActionGroup("entry_point", d,
                                       _make_entry_point_actions(target_prefix, d),
                                       target_prefix))
        compile_action_groups ==
            Map(link_precs,
                LAMBDA d : ActionGroup("compile", d,
                                       _make_compile_actions(target_prefix, d,
                                                             link_action_groups),
                                       target_prefix))
        record_axns ==
            concat(Map(link_precs,
                LAMBDA d :
                    LET li == FirstIdx(link_action_groups, LAMBDA ag : ag.pkg_data = d)
                        ci == FirstIdx(compile_action_groups, LAMBDA ag : ag.pkg_data = d)
                        ei == FirstIdx(entry_point_action_groups,
                                       LAMBDA ag : ag.pkg_data = d)
                    IN CreatePrefixRecordAction_create_actions(target_prefix, d,
                           link_action_groups[li].actions
                             \o compile_action_groups[ci].actions
                             \o entry_point_action_groups[ei].actions)))
        prefix_record_groups == <<ActionGroup("record", "None", record_axns, target_prefix)>>
        register_actions ==
            <<Action("RegisterEnvironmentLocationAction", "None", target_prefix, "", "file")>>
        register_action_groups ==
            <<ActionGroup("register", "None",
                          register_actions \o UpdateHistoryAction_create_actions(target_prefix),
                          target_prefix)>>
    IN [unlink_action_groups |-> unlink_action_groups,
        unregister_action_groups |-> unregister_action_groups,
        link_action_groups |-> link_action_groups,
        register_action_groups |-> register_action_groups,
        compile_action_groups |-> compile_action_groups,
        entry_point_action_groups |-> entry_point_action_groups,
        prefix_record_groups |-> prefix_record_groups]

\* A variant with the register groups as the last field
PrefixActionGroup_fields_register_last(pg) ==
    <<pg.unlink_action_groups, pg.unregister_action_groups, pg.link_action_groups,
      pg.compile_action_groups, pg.entry_point_action_groups, pg.prefix_record_groups,
      pg.register_action_groups>>

\* the fields of a PrefixActionGroup, in the order of the namedtuple
PrefixActionGroup_fields(pg) ==
    <<pg.unlink_action_groups, pg.unregister_action_groups, pg.link_action_groups,
      pg.register_action_groups, pg.compile_action_groups, pg.entry_point_action_groups,
      pg.prefix_record_groups>>

(***************************************************************************)
(* The verifier.  An error is a record: its class, the path and the        *)
(* packages it names, and the prefix it is about.                          *)
(***************************************************************************)
Error(type, path, pkgs, prefix) ==
    [type |-> type, path |-> path, pkgs |-> pkgs, prefix |-> prefix]

RemoveError_conda == Error("RemoveError", "", <<"conda">>, "")
RemoveError_dependency(dep_name) == Error("RemoveError", "", <<dep_name>>, "")

lower_on_win(p) == IF context.on_win THEN lower(p) ELSE p

\* every action of a PrefixActionGroup, group by group
all_actions_of(prefix_action_group) ==
    concat(Map(concat(PrefixActionGroup_fields(prefix_action_group)),
               LAMBDA axngroup : axngroup.actions))

\* action.verify(): a link action whose file the extracted package lacks returns an error
action_verify(axn) ==
    IF axn.cls = "LinkPathAction" /\ axn.link_type # "directory"
       /\ <<axn.pkg, axn.target_short_path>> \in cache_missing
    THEN <<Error("SafetyError", axn.target_short_path, <<axn.pkg>>, axn.target_prefix)>>
    ELSE <<>>

\* the actions _verify_individual_level calls verify() on
individual_level_calls(prefix_action_group) ==
    SelectSeq(all_actions_of(prefix_action_group), LAMBDA axn : axn \notin action_verified)

_verify_individual_level(prefix_action_group) ==
    concat(Map(individual_level_calls(prefix_action_group), action_verify))

\* the paths one link path action counts for in the clobber checks
link_path_action_paths(link_path_action) ==
    IF link_path_action.cls = "CompileMultiPycAction"
    THEN link_path_action.target_short_paths
    ELSE IF link_path_action.cls = "CreateNonadminAction" THEN <<>>
    ELSE IF link_path_action.link_type # "directory"
         THEN <<link_path_action.target_short_path>>
         ELSE <<>>

\* the (path, create-record action) pairs in the order the loops of
\* _verify_prefix_level meet them
link_path_pairs(prefix_action_group) ==
    LET create_lpr_actions ==
            SelectSeq(concat(Map(prefix_action_group.prefix_record_groups,
                                 LAMBDA grp : grp.actions)),
                      LAMBDA axn : axn.cls = "CreatePrefixRecordAction")
    IN concat(Map(create_lpr_actions,
          LAMBDA axn :
              concat(Map(axn.all_link_path_actions,
                  LAMBDA lpa : Map(link_path_action_paths(lpa),
                                   LAMBDA path : [path |-> lower_on_win(path),
                                                  pkg |-> axn.pkg])))))

unlink_paths_of(prefix_action_group) ==
    {lower_on_win(axn.target_short_path) :
        axn \in {a \in UNION {Range(grp.actions) :
                                grp \in Range(prefix_action_group.unlink_action_groups)} :
                    a.cls = "UnlinkPathAction"}}

\* A variant that finds no path in the way
clobber_error_never(target_prefix, unlink_paths, pair) == <<>>

\* Verification 1 for one path: the clobber error, if any
clobber_error(target_prefix, unlink_paths, pair) ==
    IF pair.path \notin unlink_paths /\ lexists(target_prefix, pair.path)
    THEN LET recs == iter_records(target_prefix)
             i == FirstIdx(recs, LAMBDA prefix_rec : pair.path \in Range(record_files(prefix_rec)))
         IN IF i # 0
            THEN <<Error("KnownPackageClobberError", pair.path, <<pair.pkg, recs[i]>>,
                         target_prefix)>>
            ELSE <<Error("UnknownPackageClobberError", pair.path, <<pair.pkg>>,
                         target_prefix)>>
    ELSE <<>>

\* A variant that asks for more than two instances of the path
shared_path_error_above_two(target_prefix, pairs, i) ==
    LET path == pairs[i].path
        axns == SelectSeq(pairs, LAMBDA q : q.path = path)
    IN IF (\A j \in 1..(i-1) : pairs[j].path # path) /\ Len(axns) > 2
       THEN <<Error("SharedLinkPathClobberError", path, Map(axns, LAMBDA q : q.pkg),
                    target_prefix)>>
       ELSE <<>>

\* Verification 2 for the path first met at position i: the shared-path error, if any
shared_path_error(target_prefix, pairs, i) ==
    LET path == pairs[i].path
        axns == SelectSeq(pairs, LAMBDA q : q.path = path)
    IN IF (\A j \in 1..(i-1) : pairs[j].path # path) /\ Len(axns) > 1
       THEN <<Error("SharedLinkPathClobberError", path, Map(axns, LAMBDA q : q.pkg),
                    target_prefix)>>
       ELSE <<>>

_verify_prefix_level(target_prefix, prefix_action_group) ==
    LET unlink_paths == unlink_paths_of(prefix_action_group)
        pairs == link_path_pairs(prefix_action_group)
    IN concat(Map(pairs, LAMBDA pair : clobber_error(target_prefix, unlink_paths, pair)))
         \o concat([i \in DOMAIN pairs |-> shared_path_error(target_prefix, pairs, i)])

\* the (prec, setup) pairs of conda_setups that link a record named conda, in order
conda_link_pairs(conda_setups) ==
    concat(Map(conda_setups,
               LAMBDA setup : Map(SelectSeq(setup.link_precs,
                                            LAMBDA prec : prec_name(prec) = "conda"),
                                  LAMBDA prec : [prec |-> prec, setup |-> setup])))

\* A variant that does not look for a setup that links conda again
relinked_ignored(conda_unlinked, conda_final_setup_is_None) == conda_unlinked

\* A variant that never reports the removal of conda
removal_unreported(conda_unlinked, conda_final_setup_is_None) == FALSE

\* Verification 1: conda is unlinked and linked by no setup of conda's prefixes
relinked_nowhere(conda_unlinked, conda_final_setup_is_None) ==
    conda_unlinked /\ conda_final_setup_is_None

\* Verifications 1 and 2 of _verify_transaction_level: conda and its dependencies
conda_errors(setups) ==
    LET conda_setups == SelectSeq(setups,
                                  LAMBDA setup : setup.target_prefix \in Range(conda_prefixes))
        conda_unlinked ==
            \E i \in DOMAIN conda_setups :
                \E prec \in Range(conda_setups[i].unlink_precs) : prec_name(prec) = "conda"
        pairs == conda_link_pairs(conda_setups)
        conda_final_setup_is_None == pairs = <<>>
        conda_final_prefix ==
            IF conda_final_setup_is_None THEN context.conda_prefix
            ELSE pairs[1].setup.target_prefix
        pd == iter_records(conda_final_prefix)
        pkg_names_already_lnkd == Map(pd, prec_name)
        pkg_names_being_lnkd ==
            IF conda_final_setup_is_None THEN <<>>
            ELSE Map(pairs[1].setup.link_precs, prec_name)
        pkg_names_being_unlnkd ==
            IF conda_final_setup_is_None THEN <<>>
            ELSE Map(pairs[1].setup.unlink_precs, prec_name)
        conda_linked_depends ==
            IF conda_final_setup_is_None
            THEN LET i == FirstIdx(pd, LAMBDA record : prec_name(record) = "conda")
                 IN IF i = 0 THEN <<>> ELSE prec_depends(pd[i])
            ELSE prec_depends(pairs[1].prec)
        dependency_error(conda_dependency) ==
            LET dep_name == MatchSpec_name(conda_dependency)
            IN IF dep_name \notin Range(pkg_names_being_lnkd)
                  /\ (dep_name \notin Range(pkg_names_already_lnkd)
                      \/ dep_name \in Range(pkg_names_being_unlnkd))
               THEN <<RemoveError_dependency(dep_name)>>
               ELSE <<>>
    IN (IF relinked_nowhere(conda_unlinked, conda_final_setup_is_None)
        THEN <<RemoveError_conda>> ELSE <<>>)
         \o concat(Map(conda_linked_depends, dependency_error))

\* Verification 3: context.disallowed_packages
disallowed_errors(setups) ==
    concat(Map(setups,
        LAMBDA prefix_setup :
            Map(SelectSeq(prefix_setup.link_precs,
                          LAMBDA prec : \E s \in context.disallowed_packages :
                                            MatchSpec_name(s) = prec_name(prec)),
                LAMBDA prec : Error("DisallowedPackageError", "", <<prec>>,
                                    prefix_setup.target_prefix))))

\* mkdir_p(dirname(test_path)): whether it raises, and what it returns (dir_existed)
mkdir_p_raises(prefix, dir) == dir \notin disk[prefix] /\ ~writable[prefix]
mkdir_p_dir_existed(prefix, dir) == dir \in disk[prefix]

\* Verification 5 for one prefix: the error of the writability probe, if any
probe_error(prefix) ==
    IF mkdir_p_raises(prefix, dirname(PREFIX_MAGIC_FILE)) \/ ~writable[prefix]
    THEN <<Error("EnvironmentNotWritableError", "", <<>>, prefix)>>
    ELSE <<>>

\* rm_rf(path): the path and everything below it
rm_rf(paths, path) == {q \in paths : q # path /\ path \notin ancestors(q)}

\* A variant of the probe that leaves what it made
probe_disk_no_cleanup(prefix) ==
    IF mkdir_p_raises(prefix, dirname(PREFIX_MAGIC_FILE)) THEN disk[prefix]
    ELSE IF ~writable[prefix] THEN disk[prefix] \cup {dirname(PREFIX_MAGIC_FILE)}
    ELSE disk[prefix] \cup {dirname(PREFIX_MAGIC_FILE), PREFIX_MAGIC_FILE}

\* Verification 5 for one prefix: the paths of the prefix after the probe
probe_disk(prefix) ==
    LET test_path == PREFIX_MAGIC_FILE
        test_path_existed == lexists(prefix, test_path)
        dir == dirname(test_path)
        dir_existed == mkdir_p_dir_existed(prefix, dir)
        made == disk[prefix] \cup {dir}
        opened == made \cup {test_path}
    IN IF mkdir_p_raises(prefix, dir) THEN disk[prefix]
       ELSE IF ~writable[prefix]
            THEN \* open() raised: the directory is removed only if dir_existed is False
                 IF ~dir_existed THEN rm_rf(made, dir) ELSE made
            ELSE \* the directory and the file are there now
                 IF ~dir_existed THEN rm_rf(opened, dir)
                 ELSE IF ~test_path_existed THEN rm_rf(opened, test_path)
                 ELSE opened

writable_errors(setups) ==
    concat(Map(setups, LAMBDA prefix_setup : probe_error(prefix_setup.target_prefix)))

_verify_transaction_level(setups) ==
    conda_errors(setups) \o disallowed_errors(setups) \o writable_errors(setups)

\* A variant that submits the per-action futures only
verify_futures_individual_only(setups, action_groups) ==
    [errors |-> concat(Map(action_groups, _verify_individual_level)),
     verify_calls |-> UNION {Range(individual_level_calls(action_groups[i])) :
                               i \in DOMAIN action_groups},
     prefix_checks |-> {setups[i].target_prefix : i \in DOMAIN action_groups},
     transaction_level |-> TRUE]

\* The futures of _verify, read in submission order: the errors they return, the
\* actions whose verify() they call, the prefixes whose clobber check they run
verify_futures(setups, action_groups) ==
    [errors |-> concat(Map(action_groups, _verify_individual_level))
                  \o concat([i \in DOMAIN action_groups |->
                               _verify_prefix_level(setups[i].target_prefix,
                                                    action_groups[i])]),
     verify_calls |-> UNION {Range(individual_level_calls(action_groups[i])) :
                               i \in DOMAIN action_groups},
     prefix_checks |-> {setups[i].target_prefix : i \in DOMAIN action_groups},
     transaction_level |-> TRUE]

\* What _verify returns and what it ran
_verify(setups, action_groups) ==
    LET transaction_exceptions == _verify_transaction_level(setups)
    IN IF transaction_exceptions # <<>>
       THEN [errors |-> transaction_exceptions, verify_calls |-> {}, prefix_checks |-> {},
             transaction_level |-> TRUE]
       ELSE verify_futures(setups, action_groups)

\* maybe_raise(CondaMultiError(exceptions), context): whether it raises.  Clobber and
\* safety errors are demoted to warnings when safety_checks is warn
demotable(e) ==
    e.type \in {"KnownPackageClobberError", "UnknownPackageClobberError",
                "SharedLinkPathClobberError", "SafetyError"}

maybe_raise(exceptions) ==
    IF context.safety_checks = "warn"
    THEN \E i \in DOMAIN exceptions : ~demotable(exceptions[i])
    ELSE exceptions # <<>>

(***************************************************************************)
(* The facade: download_and_extract, prepare, verify, execute.             *)
(***************************************************************************)
SetupPrefixes == {prefix_setups[i].target_prefix : i \in DOMAIN prefix_setups}

Idle == ex.pc = "idle"

\* the work of a facade call: the fetcher executed, the action groups were built,
\* _verify ran
fetch_work == IF pfe_executed THEN {} ELSE {"fetch"}
prepare_work == fetch_work \cup (IF prepared THEN {} ELSE {"plan"})

\* the action groups prepare() leaves in self.prefix_action_groups
prepare_groups ==
    IF prepared THEN prefix_action_groups
    ELSE Map(prefix_setups, LAMBDA stp : _prepare(stp.target_prefix, stp.unlink_precs,
                                                   stp.link_precs))

\* the context prepare() leaves: every _prepare writes the same dictionary
prepare_context ==
    IF prepared THEN transaction_context
    ELSE LET stp == prefix_setups[Len(prefix_setups)]
         IN [temp_dir |-> stp.target_prefix,
             target_python_version |->
                 _get_python_version(stp.target_prefix,
                                     prefix_recs_to_unlink_of(stp.target_prefix,
                                                              stp.unlink_precs),
                                     stp.link_precs)]

\* mkdir_p(target_prefix) of every setup, unless prepared
prepare_disk(d) ==
    [p \in Prefixes |-> IF ~prepared /\ p \in SetupPrefixes THEN d[p] \cup {prefix_dir}
                        ELSE d[p]]

\* rm_rf(self.transaction_context['temp_dir'])
\* A variant that leaves the scratch directory in place
rm_temp_dir_skipped(d, tc) == d

rm_temp_dir(d, tc) == [d EXCEPT ![tc.temp_dir] = @ \ {temp_dir_name}]

\* The scratch directory the verify() of a file link action stages its files in.  The
\* action was built with the transaction context while temp_dir named the scratch
\* directory of its own prefix; it either kept that name (own) or reads temp_dir from
\* the context when it runs
staging_prefixes(calls, own, tc) ==
    {IF own THEN a.target_prefix ELSE tc.temp_dir :
       a \in {c \in calls : c.cls = "LinkPathAction" /\ c.link_type # "directory"}}

stage(d, S) == [p \in Prefixes |-> IF p \in S THEN d[p] \cup {temp_dir_name} ELSE d[p]]

Call(op, result, work) ==
    [op |-> op, dry_run |-> context.dry_run, safety_checks |-> context.safety_checks,
     result |-> result, work |-> work]

download_and_extract ==
    /\ Idle
    /\ pfe_executed' = TRUE
    /\ last_call' = Call("download_and_extract", "ok", fetch_work)
    /\ UNCHANGED <<context, prefix_setups, disk, writable, cache_missing, change_report, action_verified,
                   prepared, verified, prefix_action_groups, transaction_context,
                   verify_out, ex>>

prepare ==
    /\ Idle
    /\ pfe_executed' = TRUE
    /\ prefix_action_groups' = prepare_groups
    /\ transaction_context' = prepare_context
    /\ disk' = prepare_disk(disk)
    /\ prepared' = TRUE
    /\ last_call' = Call("prepare", "ok", prepare_work)
    /\ UNCHANGED <<context, prefix_setups, writable, cache_missing, change_report, action_verified,
                   verified, verify_out, ex>>

\* What verify() does after its call of prepare(): the outcome, the flag, the record of
\* the checks, the verified actions, the disk
no_checks == [errors |-> <<>>, verify_calls |-> {}, prefix_checks |-> {},
              transaction_level |-> FALSE]

\* the part of verify() after _verify has returned out
verify_outcome(out, own) ==
    LET probed == stage([p \in Prefixes |->
                           IF out.transaction_level /\ p \in SetupPrefixes
                           THEN probe_disk(p) ELSE disk[p]],
                        staging_prefixes(out.verify_calls, own, prepare_context))
        raises == maybe_raise(out.errors)
    IN [result |-> IF raises THEN "CondaMultiError" ELSE "ok",
        verified |-> (verified \/ ~raises),
        out |-> out,
        work |-> prepare_work \cup {"check"},
        action_verified |-> action_verified
                              \cup {a \in out.verify_calls : action_verify(a) = <<>>},
        disk |-> IF raises THEN rm_temp_dir(prepare_disk(probed), prepare_context)
                 ELSE prepare_disk(probed)]

verify_body(own) ==
    IF context.dry_run
    THEN [result |-> "AssertionError", verified |-> verified, out |-> verify_out,
          work |-> prepare_work,
          action_verified |-> action_verified, disk |-> prepare_disk(disk)]
    ELSE IF context.safety_checks = "disabled"
    THEN [result |-> "ok", verified |-> TRUE, out |-> verify_out,
          work |-> prepare_work,
          action_verified |-> action_verified, disk |-> prepare_disk(disk)]
    ELSE verify_outcome(_verify(prefix_setups, prepare_groups), own)

verify ==
    /\ Idle
    /\ \E v \in {verify_body(own) : own \in BOOLEAN} :
          /\ pfe_executed' = TRUE
          /\ prefix_action_groups' = prepare_groups
          /\ transaction_context' = prepare_context
          /\ prepared' = TRUE
          /\ disk' = v.disk
          /\ verified' = v.verified
          /\ verify_out' = v.out
          /\ action_verified' = v.action_verified
          /\ last_call' = Call("verify", v.result, v.work)
    /\ UNCHANGED <<context, prefix_setups, writable, cache_missing, change_report, ex>>

(***************************************************************************)
(* The executor.  A group is named by its index in all_action_groups; the  *)
(* aggregated compile group, which is in no list, by 0.                    *)
(***************************************************************************)
\* tuple(concat(interleave(itervalues(self.prefix_action_groups)))), the argument
\* of _execute
interleaved(action_groups) ==
    LET fields == Map(action_groups, PrefixActionGroup_fields)
    IN concat([f \in 1..7 |-> concat([i \in DOMAIN fields |-> fields[i][f]])])

all_action_groups == ex.all_action_groups

\* the groups of one type, in the order of all_action_groups
group_ids(type) ==
    SelectSeq([g \in DOMAIN all_action_groups |-> g],
              LAMBDA g : all_action_groups[g].type = type)

\* AggregateCompileMultiPycAction(*individual_actions) and its ActionGroup; the
\* individuals it wraps are kept in all_link_path_actions
composite_group(groups) ==
    LET individual_actions ==
            concat(Map(SelectSeq(groups, LAMBDA ag : ag.type = "compile"),
                       LAMBDA ag : ag.actions))
        first_one == individual_actions[1]
        composite ==
            [Action("AggregateCompileMultiPycAction", first_one.pkg,
                    first_one.target_prefix, "", "file")
               EXCEPT !.target_short_paths =
                          concat(Map(individual_actions, LAMBDA a : a.target_short_paths)),
                      !.all_link_path_actions = individual_actions]
    IN ActionGroup("compile", "None", <<composite>>, composite.target_prefix)

has_compile_actions(groups) ==
    \E i \in DOMAIN groups : groups[i].type = "compile" /\ groups[i].actions # <<>>

\* ex.composite holds the aggregated group (an empty list when there is none)
group_of(g) == IF g = 0 THEN ex.composite[1] ELSE ex.all_action_groups[g]

\* the group list of a pass of the loop of _execute, and its register type
phase_groups(phase) == group_ids(IF phase = 1 THEN "unlink" ELSE "link")
register_group(phase) == IF phase = 1 THEN "unregister" ELSE "register"
install_side(phase) == phase = 2

\* A variant that submits every compile group as well as the aggregated group
block2_tasks_with_compile_groups(phase) ==
    IF install_side(phase)
    THEN Range(group_ids("entry_point")) \cup (IF ex.composite # <<>> THEN {0} ELSE {})
           \cup Range(group_ids("compile")) \cup Range(group_ids("record"))
    ELSE {}

\* the futures of parallel block 2
block2_tasks(phase) ==
    IF install_side(phase)
    THEN Range(group_ids("entry_point")) \cup (IF ex.composite # <<>> THEN {0} ELSE {})
           \cup Range(group_ids("record"))
    ELSE {}

(***************************************************************************)
(* What execute() and reverse() of an action do to the paths of its        *)
(* prefix.  An action removes or creates paths; reverse() undoes what its  *)
(* own execute() changed and nothing else.                                 *)
(***************************************************************************)
removes(axn) == axn.cls \in {"UnlinkPathAction", "RemoveLinkedPackageRecordAction",
                             "RemoveMenuAction"}

creates(axn) == axn.cls \in {"LinkPathAction", "CreateNonadminAction", "MakeMenuAction",
                             "CreatePythonEntryPointAction", "CompileMultiPycAction",
                             "AggregateCompileMultiPycAction", "CreatePrefixRecordAction",
                             "UpdateHistoryAction"}

action_paths(axn) ==
    IF axn.cls \in {"CompileMultiPycAction", "AggregateCompileMultiPycAction"}
    THEN Range(axn.target_short_paths)
    ELSE {axn.target_short_path}

\* the paths execute() of the action changes, given the paths of its prefix
changed_paths(paths, axn) ==
    IF removes(axn)
    THEN IF axn.link_type = "directory"
         THEN {q \in action_paths(axn) \cap paths : \A r \in paths : q \notin ancestors(r)}
         ELSE action_paths(axn) \cap paths
    ELSE IF creates(axn) THEN action_paths(axn) \ paths
    ELSE {}

action_execute(d, axn) ==
    LET p == axn.target_prefix
    IN IF removes(axn) THEN [d EXCEPT ![p] = @ \ changed_paths(d[p], axn)]
       ELSE [d EXCEPT ![p] = @ \cup changed_paths(d[p], axn)]

\* st carries the disk, the outstanding changes <<g, a, path>>, the log of reverse()
\* calls and the exceptions they raised; F holds the calls <<g, a>> that raise.
\* reverse() of a compile action removes its .pyc files, also those the aggregated
\* action (group 0) compiled
action_reverse(st, g, a, F) ==
    LET axn == group_of(g).actions[a]
        p == axn.target_prefix
        mine == {e \in st.effect :
                   \/ e[1] = g /\ e[2] = a
                   \/ /\ axn.cls = "CompileMultiPycAction"
                      /\ e[1] = 0
                      /\ e[3] \in Range(axn.target_short_paths)}
        paths == {e[3] : e \in mine}
    IN IF <<g, a>> \in F
       THEN [st EXCEPT !.reversed = Append(@, <<g, a>>),
                       !.excs = Append(@, [type |-> "ReverseError", g |-> g, a |-> a])]
       ELSE [st EXCEPT !.reversed = Append(@, <<g, a>>),
                       !.effect = @ \ mine,
                       !.disk = IF removes(axn) THEN [@ EXCEPT ![p] = @ \cup paths]
                                ELSE [@ EXCEPT ![p] = @ \ paths]]

\* A variant in which the first reverse() that raises ends the reverse of the group
RECURSIVE reverse_from_until_error(_, _, _, _)
reverse_from_until_error(st, g, a, F) ==
    IF a = 0 THEN st
    ELSE IF <<g, a>> \in F THEN action_reverse(st, g, a, F)
    ELSE reverse_from_until_error(action_reverse(st, g, a, F), g, a - 1, F)

\* _reverse_actions(axngroup): reverse() on the actions from the last to the first
RECURSIVE reverse_from(_, _, _, _)
reverse_from(st, g, a, F) ==
    IF a = 0 THEN st ELSE reverse_from(action_reverse(st, g, a, F), g, a - 1, F)

_reverse_actions(st, g, F) == reverse_from(st, g, Len(group_of(g).actions), F)

\* the rollback loop of _execute: reversed(tuple(all_action_groups))
RECURSIVE rollback_from(_, _, _)
rollback_from(st, g, F) ==
    IF g = 0 THEN st ELSE rollback_from(_reverse_actions(st, g, F), g - 1, F)

\* the sets of reverse() calls that may raise, among the calls on these groups
reverse_failures(gs) ==
    LET reverse_calls == UNION {{<<g, a>> : a \in DOMAIN group_of(g).actions} : g \in gs}
    IN {{}} \cup (IF context.rollback_enabled /\ ex.nrevfail < MaxReverseFailures
                  THEN {{c} : c \in reverse_calls}
                  ELSE {})

reverse_state(d) == [disk |-> d, effect |-> ex.effect, reversed |-> ex.reversed, excs |-> <<>>]

\* the except branch of _execute_actions and _execute_post_link_actions: the group
\* reverses itself when rollback is enabled, and the CondaMultiError is returned
group_failure(d, g, e, F) ==
    LET st == IF context.rollback_enabled THEN _reverse_actions(reverse_state(d), g, F)
              ELSE reverse_state(d)
    IN [disk |-> st.disk, effect |-> st.effect, reversed |-> st.reversed,
        exc |-> [error |-> e, group |-> g, reverse_excs |-> st.excs]]

\* run_script: the script file is absent, exits 0 or exits non-zero
script_name(phase, pre) ==
    IF phase = 1 THEN (IF pre THEN "pre-unlink" ELSE "post-unlink")
    ELSE (IF pre THEN "pre-link" ELSE "post-link")

run_script_outcomes(g, name) ==
    IF name \notin prec_scripts(group_of(g).pkg_data) THEN {"absent"}
    ELSE {"ok"} \cup (IF ex.nfail < MaxFailures THEN {"failed"} ELSE {})

\* A variant of run_script that raises for every script that exits non-zero
script_raises_always(name, rc) == rc = "failed"

\* run_script raises LinkError when a pre-link or post-link script exits non-zero; for
\* the unlink scripts it logs a warning and returns False
script_raises(name, rc) == rc = "failed" /\ name \in {"pre-link", "post-link"}

ran_script(g, name, rc) == IF rc = "absent" THEN {} ELSE {<<g, name, rc>>}

FacadeUnchanged ==
    UNCHANGED <<context, prefix_setups, writable, cache_missing, change_report, action_verified,
                pfe_executed, prepared, verified, prefix_action_groups,
                transaction_context, verify_out>>

ex_idle(snapshot) ==
    [pc |-> "idle", phase |-> 0, i |-> 0, tasks |-> <<>>, exceptions |-> <<>>,
     started |-> {}, done |-> {}, effect |-> {}, scripts |-> {}, reversed |-> <<>>,
     nfail |-> 0,
     nrevfail |-> 0, raised |-> <<>>, cleaned |-> FALSE, snapshot |-> snapshot,
     all_action_groups |-> <<>>, composite |-> <<>>, signal |-> "none",
     inverse |-> FALSE, origin |-> snapshot]

\* the locals of _execute when it starts
execute_start(groups) ==
    [ex_idle(disk) EXCEPT !.pc = "pre", !.phase = 1, !.i = 1,
                          !.all_action_groups = groups,
                          !.composite = IF has_compile_actions(groups)
                                        THEN <<composite_group(groups)>> ELSE <<>>,
                          !.inverse = ex.inverse, !.origin = ex.origin]

\* A variant of execute() without its assertion
no_assertion == "ok"

\* assert not context.dry_run, in execute()
execute_assertion == IF context.dry_run THEN "AssertionError" ELSE "ok"

\* execute(): verify() unless verified, the assertion, then _execute starts
execute ==
    /\ Idle
    /\ \E v \in {IF verified
                  THEN [result |-> execute_assertion,
                        verified |-> TRUE, out |-> verify_out, work |-> {},
                        action_verified |-> action_verified, disk |-> disk]
                  ELSE verify_body(FALSE)} \cup
                 (IF verified THEN {} ELSE {verify_body(TRUE)}) :
          /\ pfe_executed' = (pfe_executed \/ ~verified)
          /\ prefix_action_groups' = IF verified THEN prefix_action_groups ELSE prepare_groups
          /\ transaction_context' = IF verified THEN transaction_context ELSE prepare_context
          /\ prepared' = (prepared \/ ~verified)
          /\ disk' = v.disk
          /\ verified' = v.verified
          /\ verify_out' = v.out
          /\ action_verified' = v.action_verified
          /\ IF v.result = "ok"
             THEN /\ ex' = execute_start(interleaved(prefix_action_groups'))
                  /\ last_call' = Call("execute", "running", v.work)
             ELSE /\ ex' = ex
                  /\ last_call' = Call("execute", v.result, v.work)
    /\ UNCHANGED <<context, prefix_setups, writable, cache_missing, change_report>>

\* the finally of execute() when _execute raises
raise(error) ==
    /\ disk' = rm_temp_dir(disk, transaction_context)
    /\ last_call' = [last_call EXCEPT !.result = error]

\* the pre-unlink / pre-link loop of _execute
run_pre_script ==
    /\ ex.pc = "pre"
    /\ ex.i <= Len(phase_groups(ex.phase))
    /\ LET g == phase_groups(ex.phase)[ex.i]
           name == script_name(ex.phase, TRUE)
       IN \E rc \in run_script_outcomes(g, name) :
            IF script_raises(name, rc)
            THEN /\ ex' = [ex EXCEPT !.pc = "raised", !.nfail = @ + 1,
                                     !.scripts = @ \cup ran_script(g, name, rc),
                                     !.raised = <<[type |-> "LinkError", g |-> g, a |-> 0]>>]
                 /\ raise("LinkError")
            ELSE /\ ex' = [ex EXCEPT !.i = @ + 1,
                                     !.nfail = @ + (IF rc = "failed" THEN 1 ELSE 0),
                                     !.scripts = @ \cup ran_script(g, name, rc)]
                 /\ UNCHANGED <<disk, last_call>>
    /\ FacadeUnchanged

\* A variant that leaves a script loop before its last group
script_loop_left_early == TRUE

\* the for loop over the groups of the pass (pre-scripts, post-scripts) is exhausted
script_loop_done == ex.i > Len(phase_groups(ex.phase))

\* parallel block 1: every group of the pass is submitted to the executor
submit_block1 ==
    /\ ex.pc = "pre"
    /\ script_loop_done
    /\ ex' = [ex EXCEPT !.pc = "block1",
                        !.tasks = [g \in Range(phase_groups(ex.phase)) |-> -1]]
    /\ UNCHANGED <<disk, last_call>>
    /\ FacadeUnchanged

finished(g) == ex.tasks[g] = Len(group_of(g).actions)

\* _execute_actions(axngroup), one action at a time: the first step makes conda-meta,
\* every step calls execute() of the next action; an exception ends the group
execute_action(g) ==
    /\ ex.pc \in {"block1", "block2", "register"}
    /\ g \in DOMAIN ex.tasks
    /\ ~finished(g)
    /\ ex.pc = "register" => \A h \in DOMAIN ex.tasks : h < g => finished(h)
    /\ LET grp == group_of(g)
           p == grp.target_prefix
           k == IF ex.tasks[g] = -1 THEN 1 ELSE ex.tasks[g] + 1
           d1 == IF ex.tasks[g] = -1 /\ ~isdir(p, conda_meta_dir)
                 THEN [disk EXCEPT ![p] = @ \cup {conda_meta_dir}]
                 ELSE disk
       IN IF grp.actions = <<>>
          THEN /\ ex' = [ex EXCEPT !.tasks[g] = 0, !.done = @ \cup {g}]
               /\ disk' = d1
          ELSE \E raises \in {FALSE} \cup (IF ex.nfail < MaxFailures THEN {TRUE} ELSE {}) :
                 IF ~raises
                 THEN /\ disk' = action_execute(d1, grp.actions[k])
                      /\ ex' = [ex EXCEPT
                                  !.tasks[g] = k,
                                  !.started = @ \cup {<<g, k>>},
                                  !.done = IF k = Len(grp.actions) THEN @ \cup {g} ELSE @,
                                  !.effect = @ \cup {<<g, k, q>> :
                                      q \in changed_paths(d1[grp.actions[k].target_prefix],
                                                          grp.actions[k])}]
                 ELSE \E F \in reverse_failures({g}) :
                        \E r \in {group_failure(d1, g,
                                     [type |-> "ExecuteError", g |-> g, a |-> k], F)} :
                           /\ disk' = r.disk
                           /\ ex' = [ex EXCEPT
                                       !.tasks[g] = Len(grp.actions),
                                       !.started = @ \cup {<<g, k>>},
                                       !.done = @ \cup {g},
                                       !.nfail = @ + 1,
                                       !.nrevfail = @ + Cardinality(F),
                                       !.effect = r.effect,
                                       !.reversed = r.reversed,
                                       !.exceptions = Append(@, r.exc)]
    /\ UNCHANGED last_call
    /\ FacadeUnchanged

execute_some_action == \E g \in DOMAIN ex.tasks : execute_action(g)

\* A variant that goes on as soon as one future has been yielded
first_finished == DOMAIN ex.tasks = {} \/ \E g \in DOMAIN ex.tasks : finished(g)

\* A variant that stops waiting once an exception has been recorded
finished_or_failed ==
    (\A g \in DOMAIN ex.tasks : finished(g)) \/ ex.exceptions # <<>>

all_finished == \A g \in DOMAIN ex.tasks : finished(g)

\* as_completed() of parallel block 1 has yielded every future
finish_block1 ==
    /\ ex.pc = "block1"
    /\ all_finished
    /\ ex' = [ex EXCEPT !.pc = "post", !.i = 1, !.tasks = <<>>]
    /\ UNCHANGED <<disk, last_call>>
    /\ FacadeUnchanged

\* _execute_post_link_actions(axngroup) in the serial loop after block 1
run_post_script ==
    /\ ex.pc = "post"
    /\ ex.i <= Len(phase_groups(ex.phase))
    /\ LET g == phase_groups(ex.phase)[ex.i]
           name == script_name(ex.phase, FALSE)
       IN \E rc \in run_script_outcomes(g, name) :
            IF script_raises(name, rc)
            THEN \E F \in reverse_failures({g}) :
                   \E r \in {group_failure(disk, g,
                                            [type |-> "LinkError", g |-> g, a |-> 0], F)} :
                      /\ disk' = r.disk
                      /\ ex' = [ex EXCEPT !.i = @ + 1,
                                          !.nfail = @ + 1,
                                          !.nrevfail = @ + Cardinality(F),
                                          !.scripts = @ \cup ran_script(g, name, rc),
                                          !.effect = r.effect,
                                          !.reversed = r.reversed,
                                          !.exceptions = Append(@, r.exc)]
            ELSE /\ ex' = [ex EXCEPT !.i = @ + 1,
                                     !.nfail = @ + (IF rc = "failed" THEN 1 ELSE 0),
                                     !.scripts = @ \cup ran_script(g, name, rc)]
                 /\ disk' = disk
    /\ UNCHANGED last_call
    /\ FacadeUnchanged

\* parallel block 2: entry point groups, the aggregated compile group, record groups
submit_block2 ==
    /\ ex.pc = "post"
    /\ script_loop_done
    /\ ex' = [ex EXCEPT !.pc = "block2", !.tasks = [g \in block2_tasks(ex.phase) |-> -1]]
    /\ UNCHANGED <<disk, last_call>>
    /\ FacadeUnchanged

\* block 2 is done: the register (unregister) groups follow, one after the other
start_register ==
    /\ ex.pc = "block2"
    /\ all_finished
    /\ ex' = [ex EXCEPT !.pc = "register",
                        !.tasks = [g \in Range(group_ids(register_group(ex.phase))) |-> -1]]
    /\ UNCHANGED <<disk, last_call>>
    /\ FacadeUnchanged

\* A variant that starts the link pass whatever the unlink pass recorded
next_phase_despite_exceptions ==
    /\ ex.pc = "register"
    /\ all_finished
    /\ ex.phase = 1
    /\ ex' = [ex EXCEPT !.pc = "pre", !.phase = 2, !.i = 1, !.tasks = <<>>]
    /\ UNCHANGED <<disk, last_call>>
    /\ FacadeUnchanged

\* the end of the unlink pass without an exception: the link pass starts
next_phase ==
    /\ ex.pc = "register"
    /\ all_finished
    /\ ex.exceptions = <<>>
    /\ ex.phase = 1
    /\ ex' = [ex EXCEPT !.pc = "pre", !.phase = 2, !.i = 1, !.tasks = <<>>]
    /\ UNCHANGED <<disk, last_call>>
    /\ FacadeUnchanged

\* A variant that shows the last exception recorded
last_exception == ex.exceptions[Len(ex.exceptions)]

\* e = exceptions[0]: only the first exception recorded is shown
shown_exception == ex.exceptions[1]

\* the end of a pass with exceptions: break, roll back if enabled, raise
rollback_and_raise ==
    /\ ex.pc = "register"
    /\ all_finished
    /\ ex.exceptions # <<>>
    /\ \E F \in reverse_failures(DOMAIN all_action_groups) :
         \E e \in {shown_exception},
            st \in {IF context.rollback_enabled
                    THEN rollback_from(reverse_state(disk), Len(all_action_groups), F)
                    ELSE reverse_state(disk)} :
            /\ ex' = [ex EXCEPT !.pc = "raised", !.tasks = <<>>,
                                !.nrevfail = @ + Cardinality(F),
                                !.effect = st.effect,
                                !.reversed = st.reversed,
                                !.raised = <<e.error>> \o e.reverse_excs \o st.excs]
            /\ disk' = rm_temp_dir(st.disk, transaction_context)
            /\ last_call' = [last_call EXCEPT !.result = "CondaMultiError"]
    /\ FacadeUnchanged

\* the end of the link pass without an exception: cleanup() of every action
cleanup_and_return ==
    /\ ex.pc = "register"
    /\ all_finished
    /\ ex.exceptions = <<>>
    /\ ex.phase = 2
    /\ ex' = [ex EXCEPT !.pc = "returned", !.tasks = <<>>, !.cleaned = TRUE]
    /\ disk' = rm_temp_dir(disk, transaction_context)
    /\ last_call' = [last_call EXCEPT !.result = "ok"]
    /\ FacadeUnchanged

(***************************************************************************)
(* print_transaction_summary and the change report.                        *)
(***************************************************************************)
\* {prec.namekey: prec for prec in precs}: the last prec of a namekey stays
namekey_map(precs) ==
    [k \in {namekey(d) : d \in Range(precs)} |->
        precs[CHOOSE i \in DOMAIN precs :
                /\ namekey(precs[i]) = k
                /\ \A j \in DOMAIN precs : namekey(precs[j]) = k => j <= i]]

\* A variant that looks at the version only
is_update_by_version_only(unlink_prec, link_prec) ==
    VersionOrder(prec_version(link_prec)) > VersionOrder(prec_version(unlink_prec))

\* A variant that compares the channel names only
same_channel_name(unlink_prec, link_prec) ==
    prec_channel_name(link_prec) = prec_channel_name(unlink_prec)

\* link_vo == unlink_vo and build_number_increases or link_vo > unlink_vo
is_update(unlink_prec, link_prec) ==
    LET unlink_vo == VersionOrder(prec_version(unlink_prec))
        link_vo == VersionOrder(prec_version(link_prec))
        build_number_increases ==
            prec_build_number(link_prec) > prec_build_number(unlink_prec)
    IN (link_vo = unlink_vo /\ build_number_increases) \/ link_vo > unlink_vo

same_channel_and_subdir(unlink_prec, link_prec) ==
    /\ prec_channel_name(link_prec) = prec_channel_name(unlink_prec)
    /\ prec_subdir(link_prec) = prec_subdir(unlink_prec)

_calculate_change_report(prefix, unlink_precs, link_precs) ==
    LET unlink_map == namekey_map(unlink_precs)
        link_map == namekey_map(link_precs)
        unlink_namekeys == DOMAIN unlink_map
        link_namekeys == DOMAIN link_map
        common_namekeys == link_namekeys \cap unlink_namekeys
        updated == {k \in common_namekeys : is_update(unlink_map[k], link_map[k])}
        same == {k \in common_namekeys \ updated :
                   same_channel_and_subdir(unlink_map[k], link_map[k])}
        downgraded == {k \in same : ~prec_eq(link_map[k], unlink_map[k])}
        superseded == (common_namekeys \ updated) \ same
    IN [prefix |-> prefix,
        removed_precs |-> [k \in unlink_namekeys \ link_namekeys |-> unlink_map[k]],
        new_precs |-> [k \in link_namekeys \ unlink_namekeys |-> link_map[k]],
        updated_precs |-> [k \in updated |-> <<unlink_map[k], link_map[k]>>],
        downgraded_precs |-> [k \in downgraded |-> <<unlink_map[k], link_map[k]>>],
        superseded_precs |-> [k \in superseded |-> <<unlink_map[k], link_map[k]>>]]

print_transaction_summary ==
    /\ Idle
    /\ change_report' = [i \in DOMAIN prefix_setups |->
                            _calculate_change_report(prefix_setups[i].target_prefix,
                                                     prefix_setups[i].unlink_precs,
                                                     prefix_setups[i].link_precs)]
    /\ last_call' = Call("print_transaction_summary", "ok", {})
    /\ UNCHANGED <<context, prefix_setups, disk, writable, cache_missing, action_verified,
                   pfe_executed, prepared, verified, prefix_action_groups,
                   transaction_context, verify_out, ex>>

(***************************************************************************)
(* A termination signal during _execute.  The handler runs in the main     *)
(* thread, wherever that is: it returns, or it raises there.  The actions  *)
(* of the parallel blocks run in the threads of the executor.              *)
(***************************************************************************)
signal_handler_outcomes == {"returns", "raises"}

signal_error(g) == [type |-> "CondaSignalInterrupt", g |-> g, a |-> 0]

\* the register group the main thread is executing
running_register_group ==
    CHOOSE g \in DOMAIN ex.tasks :
        ~finished(g) /\ \A h \in DOMAIN ex.tasks : h < g => finished(h)

\* the main thread is inside the try of _execute_post_link_actions or of
\* _execute_actions
in_post_script_try == ex.pc = "post" /\ ex.i <= Len(phase_groups(ex.phase))
in_register_try == ex.pc = "register" /\ \E g \in DOMAIN ex.tasks : ~finished(g)

signal ==
    /\ ex.pc \in {"pre", "block1", "post", "block2", "register"}
    /\ ex.signal = "none"
    /\ \E outcome \in signal_handler_outcomes :
         IF outcome = "returns"
         THEN /\ ex' = [ex EXCEPT !.signal = "returned"]
              /\ UNCHANGED <<disk, last_call>>
         ELSE IF in_post_script_try
         THEN \E g \in {phase_groups(ex.phase)[ex.i]} :
              \E r \in {group_failure(disk, g, signal_error(g), {})} :
                 /\ disk' = r.disk
                 /\ ex' = [ex EXCEPT !.signal = "raised",
                                     !.i = @ + 1,
                                     !.effect = r.effect,
                                     !.reversed = r.reversed,
                                     !.exceptions = Append(@, r.exc)]
                 /\ UNCHANGED last_call
         ELSE IF in_register_try
         THEN \E g \in {running_register_group} :
              \E r \in {group_failure(disk, g, signal_error(g), {})} :
                 /\ disk' = r.disk
                 /\ ex' = [ex EXCEPT !.signal = "raised",
                                     !.tasks[g] = Len(group_of(g).actions),
                                     !.done = @ \cup {g},
                                     !.effect = r.effect,
                                     !.reversed = r.reversed,
                                     !.exceptions = Append(@, r.exc)]
                 /\ UNCHANGED last_call
         ELSE /\ ex' = [ex EXCEPT !.signal = "raised", !.pc = "raised",
                                  !.raised = <<signal_error(0)>>]
              /\ raise("CondaSignalInterrupt")
    /\ FacadeUnchanged

(***************************************************************************)
(* The configuration is global and mutable: dry_run may be switched        *)
(* between two calls of the facade.                                        *)
(***************************************************************************)
set_dry_run ==
    /\ Idle
    /\ context' = [context EXCEPT !.dry_run = ~@]
    /\ UNCHANGED <<prefix_setups, disk, writable, cache_missing, change_report, action_verified,
                   pfe_executed, prepared, verified, prefix_action_groups,
                   transaction_context, last_call, verify_out, ex>>

(***************************************************************************)
(* Initial states.                                                         *)
(***************************************************************************)
PrefixSetup(target_prefix, unlink_precs, link_precs) ==
    [target_prefix |-> target_prefix, unlink_precs |-> unlink_precs,
     link_precs |-> link_precs]

\* the paths of a prefix that holds these installed records and these other paths
prefix_paths(installed, others) ==
    LET files == UNION {Range(record_files(d)) : d \in installed} \cup others
    IN IF installed = {} /\ others = {} THEN {}
       ELSE files \cup UNION {ancestors(f) : f \in files}
              \cup {meta_short_path(d) : d \in installed}
              \cup (IF installed = {} THEN {} ELSE {conda_meta_dir}) \cup {prefix_dir}

InitTransaction ==
    /\ pfe_executed = FALSE
    /\ prepared = FALSE
    /\ verified = FALSE
    /\ prefix_action_groups = <<>>
    /\ transaction_context = [temp_dir |-> "None", target_python_version |-> "None"]
    /\ action_verified = {}
    /\ last_call = [op |-> "__init__", dry_run |-> context.dry_run,
                    safety_checks |-> context.safety_checks, result |-> "ok",
                    work |-> {}]
    /\ verify_out = no_checks
    /\ ex = ex_idle(disk)
    /\ change_report = <<>>

\* Transactions to execute: an upgrade in root with a second prefix, a removal of
\* two packages, a reinstallation (the same record is unlinked and linked), and an
\* installation of two packages with files to compile
InitExecute ==
    /\ context \in [dry_run : {FALSE}, safety_checks : {"enabled", "disabled"},
                    rollback_enabled : BOOLEAN, on_win : {FALSE},
                    conda_prefix : {root_prefix}, disallowed_packages : {{}}]
    /\ \/ /\ prefix_setups = <<PrefixSetup(root_prefix, <<"old-1">>, <<"a-1">>),
                               PrefixSetup(other_prefix, <<>>, <<"dep-1">>)>>
          /\ \E stray \in {{}, {"lib/dep"}} :
               disk = [p \in Prefixes |->
                         IF p = root_prefix THEN prefix_paths({"old-1"}, {})
                         ELSE IF p = other_prefix THEN prefix_paths({}, stray)
                         ELSE {}]
       \/ /\ prefix_setups = <<PrefixSetup(root_prefix, <<"old-1", "dep-1">>, <<>>)>>
          /\ disk = [p \in Prefixes |->
                       IF p = root_prefix THEN prefix_paths({"old-1", "dep-1"}, {})
                       ELSE {}]
       \/ /\ prefix_setups = <<PrefixSetup(root_prefix, <<"dep-1">>, <<"dep-1">>)>>
          /\ disk = [p \in Prefixes |->
                       IF p = root_prefix THEN prefix_paths({"dep-1"}, {})
                       ELSE {}]
       \/ /\ prefix_setups = <<PrefixSetup(other_prefix, <<>>, <<"a-1", "c-1">>)>>
          /\ disk = [p \in Prefixes |-> {}]
    /\ writable = [p \in Prefixes |-> TRUE]
    /\ cache_missing = {}
    /\ InitTransaction

Init == InitExecute

Next ==
    \/ download_and_extract
    \/ prepare
    \/ verify
    \/ execute
    \/ set_dry_run
    \/ run_pre_script
    \/ submit_block1
    \/ execute_some_action
    \/ finish_block1
    \/ run_post_script
    \/ submit_block2
    \/ start_register
    \/ next_phase
    \/ rollback_and_raise
    \/ cleanup_and_return

Spec == Init /\ [][Next]_vars

(***************************************************************************)
(* After a transaction T has returned, the inverse transaction is          *)
(* constructed on the prefixes as T left them: for every prefix, what T    *)
(* linked is unlinked and what T unlinked is linked.                       *)
(***************************************************************************)
inverse_setup(stp) == PrefixSetup(stp.target_prefix, stp.link_precs, stp.unlink_precs)

inverse_transaction ==
    /\ ex.pc = "returned"
    /\ ~ex.inverse
    /\ prefix_setups' = Map(prefix_setups, inverse_setup)
    /\ pfe_executed' = FALSE
    /\ prepared' = FALSE
    /\ verified' = FALSE
    /\ prefix_action_groups' = <<>>
    /\ transaction_context' = [temp_dir |-> "None", target_python_version |-> "None"]
    /\ action_verified' = {}
    /\ last_call' = Call("__init__", "ok", {})
    /\ verify_out' = no_checks
    /\ ex' = [ex_idle(disk) EXCEPT !.inverse = TRUE, !.origin = ex.origin]
    /\ UNCHANGED <<context, disk, writable, cache_missing, change_report>>

\* Transactions on a prefix with or without a python: a python or another package is
\* unlinked, a python or another package is linked
InitPython ==
    /\ context \in [dry_run : BOOLEAN, safety_checks : {"enabled"},
                    rollback_enabled : {TRUE}, on_win : {FALSE},
                    conda_prefix : {root_prefix}, disallowed_packages : {{}}]
    /\ \E installed \in {{}, {"dep-1"}} \cup {{d} : d \in Pythons}
                         \cup {{"dep-1", d} : d \in Pythons},
          unlink_precs \in {<<>>, <<"dep-1">>, <<"python-3.7.1">>, <<"python-2.7.15">>,
                            <<"dep-1", "python-3.7.1">>},
          link_precs \in {<<>>, <<"dep-1">>, <<"python-3.7.1">>, <<"python-3.10.2">>,
                          <<"dep-1", "python-3.10.2">>} :
         /\ prefix_setups = <<PrefixSetup(other_prefix, unlink_precs, link_precs)>>
         /\ disk = [p \in Prefixes |->
                      IF p = other_prefix THEN prefix_paths(installed, {}) ELSE {}]
    /\ writable = [p \in Prefixes |-> TRUE]
    /\ cache_missing = {}
    /\ InitTransaction

NextPython == prepare

SpecPython == InitPython /\ [][NextPython]_vars

\* Transactions on two prefixes, each with or without a python installed and with or
\* without a python to link
InitTwoPythons ==
    /\ context \in [dry_run : BOOLEAN, safety_checks : {"enabled"},
                    rollback_enabled : {TRUE}, on_win : BOOLEAN,
                    conda_prefix : {root_prefix}, disallowed_packages : {{}}]
    /\ \E installed_1 \in {{}, {"python-2.7.15"}},
          installed_2 \in {{}, {"python-3.7.1"}, {"dep-1", "python-3.7.1"}},
          link_1 \in {<<>>, <<"dep-1">>, <<"python-3.7.1">>},
          unlink_2 \in {<<>>, <<"python-3.7.1">>},
          link_2 \in {<<>>, <<"dep-1">>, <<"python-3.10.2">>} :
         /\ prefix_setups = <<PrefixSetup(root_prefix, <<>>, link_1),
                              PrefixSetup(other_prefix, unlink_2, link_2)>>
         /\ disk = [p \in Prefixes |->
                      IF p = root_prefix THEN prefix_paths(installed_1, {})
                      ELSE IF p = other_prefix THEN prefix_paths(installed_2, {})
                      ELSE {}]
    /\ writable = [p \in Prefixes |-> TRUE]
    /\ cache_missing = {}
    /\ InitTransaction

SpecTwoPythons == InitTwoPythons /\ [][NextPython]_vars

\* Transactions that unlink a package with a menu file, on Windows and elsewhere
InitPlan ==
    /\ context \in [dry_run : BOOLEAN, safety_checks : {"enabled", "warn"},
                    rollback_enabled : BOOLEAN, on_win : BOOLEAN,
                    conda_prefix : {root_prefix}, disallowed_packages : {{}}]
    /\ \E installed \in {{"m-1"}, {"m-1", "dep-1"}, {"b-1", "m-1"}},
          unlink_precs \in {<<"m-1">>, <<"dep-1", "m-1">>, <<"m-1", "b-1">>},
          link_precs \in {<<>>, <<"m-1">>} :
         /\ prefix_setups = <<PrefixSetup(other_prefix, unlink_precs, link_precs)>>
         /\ disk = [p \in Prefixes |->
                      IF p = other_prefix THEN prefix_paths(installed, {}) ELSE {}]
    /\ writable = [p \in Prefixes |-> TRUE]
    /\ cache_missing = {}
    /\ InitTransaction

NextPlan == prepare

SpecPlan == InitPlan /\ [][NextPlan]_vars

\* Transactions to summarise: up to two precs to unlink and to link, of distinct names
ReportPrecs == {"p-1.0-0", "p-1.0-0@prefix", "p-1.0-1", "p-1.0.0-0", "p-2.0-0",
                "p-1.0-0-forge", "p-1.0-0-noarch", "q-1.0-0"}

ReportPrecSeqs ==
    {<<>>} \cup {<<d>> : d \in ReportPrecs}
           \cup {<<d, e>> : d \in {"q-1.0-0"}, e \in ReportPrecs \ {"q-1.0-0"}}
           \cup {<<d, e>> : d \in ReportPrecs \ {"q-1.0-0"}, e \in {"q-1.0-0"}}

InitReport ==
    /\ context \in [dry_run : BOOLEAN, safety_checks : {"enabled"},
                    rollback_enabled : {TRUE}, on_win : {FALSE},
                    conda_prefix : {root_prefix}, disallowed_packages : {{}}]
    /\ \E unlink_precs \in ReportPrecSeqs, link_precs \in ReportPrecSeqs :
         prefix_setups = <<PrefixSetup(other_prefix, unlink_precs, link_precs)>>
    /\ disk = [p \in Prefixes |-> {}]
    /\ writable = [p \in Prefixes |-> TRUE]
    /\ cache_missing = {}
    /\ InitTransaction

NextReport == print_transaction_summary

SpecReport == InitReport /\ [][NextReport]_vars

\* A transaction and then its inverse: an upgrade with a second prefix, a removal, an
\* installation with compiled files, and an installation over a file no package owns
InitInverse ==
    /\ context \in [dry_run : {FALSE}, safety_checks : {"enabled", "disabled"},
                    rollback_enabled : {TRUE}, on_win : {FALSE},
                    conda_prefix : {root_prefix}, disallowed_packages : {{}}]
    /\ \/ /\ context.safety_checks = "enabled"
          /\ prefix_setups = <<PrefixSetup(root_prefix, <<"old-1">>, <<"a-1">>),
                               PrefixSetup(other_prefix, <<>>, <<"dep-1">>)>>
          /\ disk = [p \in Prefixes |->
                       IF p = root_prefix THEN prefix_paths({"old-1"}, {}) ELSE {}]
       \/ /\ context.safety_checks = "enabled"
          /\ prefix_setups = <<PrefixSetup(root_prefix, <<"old-1", "dep-1">>, <<>>)>>
          /\ disk = [p \in Prefixes |->
                       IF p = root_prefix THEN prefix_paths({"old-1", "dep-1"}, {})
                       ELSE {}]
       \/ /\ context.safety_checks = "enabled"
          /\ prefix_setups = <<PrefixSetup(other_prefix, <<>>, <<"a-1", "c-1">>)>>
          /\ disk = [p \in Prefixes |-> {}]
       \/ /\ context.safety_checks = "disabled"
          /\ prefix_setups = <<PrefixSetup(other_prefix, <<>>, <<"dep-1">>)>>
          /\ disk = [p \in Prefixes |->
                       IF p = other_prefix THEN prefix_paths({}, {"lib/dep"}) ELSE {}]
    /\ writable = [p \in Prefixes |-> TRUE]
    /\ cache_missing = {}
    /\ InitTransaction

NextInverse ==
    \/ Next
    \/ inverse_transaction

SpecInverse == InitInverse /\ [][NextInverse]_vars

\* A reinstallation, interrupted by a signal
InitSignal ==
    /\ context \in [dry_run : {FALSE}, safety_checks : {"enabled"},
                    rollback_enabled : BOOLEAN, on_win : {FALSE},
                    conda_prefix : {root_prefix}, disallowed_packages : {{}}]
    /\ prefix_setups = <<PrefixSetup(root_prefix, <<"dep-1">>, <<"dep-1">>)>>
    /\ disk = [p \in Prefixes |->
                 IF p = root_prefix THEN prefix_paths({"dep-1"}, {}) ELSE {}]
    /\ writable = [p \in Prefixes |-> TRUE]
    /\ cache_missing = {}
    /\ InitTransaction

NextSignal ==
    \/ Next
    \/ signal

SpecSignal == InitSignal /\ [][NextSignal]_vars

\* Transactions to verify, first family: setups on the prefixes of conda, with conda and
\* its dependency installed, unlinked and linked in every combination
InitVerifyConda ==
    /\ context \in [dry_run : {FALSE}, safety_checks : {"enabled", "warn"},
                    rollback_enabled : {TRUE}, on_win : {FALSE},
                    conda_prefix : {root_prefix, conda_env_prefix},
                    disallowed_packages : {{}}]
    /\ \E root_unlink \in {<<>>, <<"conda-1">>, <<"dep-1">>, <<"conda-1", "dep-1">>},
          root_link \in {<<>>, <<"conda-2">>, <<"conda-2", "dep-1">>},
          env_setup \in {<<>>, <<PrefixSetup(conda_env_prefix, <<>>, <<"conda-2">>)>>,
                         <<PrefixSetup(conda_env_prefix, <<"conda-1">>, <<>>)>>},
          root_installed \in {{"conda-1", "dep-1"}, {"conda-1"}, {}},
          env_installed \in {{}, {"conda-1"}} :
        /\ prefix_setups = <<PrefixSetup(root_prefix, root_unlink, root_link)>> \o env_setup
        /\ disk = [p \in Prefixes |->
                     IF p = root_prefix THEN prefix_paths(root_installed, {})
                     ELSE IF p = conda_env_prefix THEN prefix_paths(env_installed, {})
                     ELSE {}]
    /\ writable = [p \in Prefixes |-> TRUE]
    /\ cache_missing = {}
    /\ InitTransaction

\* Second family: one setup on another prefix, whose links meet installed records,
\* stray files and each other
InitVerifyPaths ==
    /\ \E fault \in {"none", "not writable", "disallowed", "missing file"} :
        /\ context \in [dry_run : {FALSE}, safety_checks : {"enabled", "warn"},
                        rollback_enabled : {TRUE}, on_win : BOOLEAN,
                        conda_prefix : {root_prefix},
                        disallowed_packages :
                            {IF fault = "disallowed" THEN {"c"} ELSE {}}]
        /\ writable = [p \in Prefixes |-> p # other_prefix \/ fault # "not writable"]
        /\ cache_missing = IF fault = "missing file" THEN {<<"a-1", "lib/a">>} ELSE {}
    /\ \E unlink \in {<<>>, <<"old-1">>},
          link \in {<<>>, <<"a-1">>, <<"b-1">>, <<"a-1", "b-1">>, <<"b-1", "c-1">>,
                    <<"a-1", "b-1", "c-1">>},
          installed \in {{}, {"old-1"}, {"b-1"}},
          stray \in {{}, {"bin/a"}} :
        /\ prefix_setups = <<PrefixSetup(other_prefix, unlink, link)>>
        /\ disk = [p \in Prefixes |->
                     IF p = other_prefix THEN prefix_paths(installed, stray) ELSE {}]
    /\ InitTransaction

InitVerify == InitVerifyConda \/ InitVerifyPaths

NextVerify ==
    \/ download_and_extract
    \/ prepare
    \/ verify

SpecVerify == InitVerify /\ [][NextVerify]_vars

\* The same transactions with execute() called as well; it runs verify() when the
\* transaction is not verified and stops where _execute would start
NextFacade ==
    \/ download_and_extract
    \/ prepare
    \/ verify
    \/ execute

SpecFacade == InitVerify /\ [][NextFacade]_vars

(***************************************************************************)
(* Properties of verification, checked under SpecVerify.                   *)
(***************************************************************************)
\* the state after a verify() in which _verify ran
verify_checked == last_call.op = "verify" /\ "check" \in last_call.work

errors_returned == Range(verify_out.errors)

names_of(precs) == {prec_name(prec) : prec \in Range(precs)}

on_conda_prefix(setup) == setup.target_prefix \in {root_prefix, conda_env_prefix}

conda_unlinked_somewhere ==
    \E setup \in Range(prefix_setups) :
        on_conda_prefix(setup) /\ "conda" \in names_of(setup.unlink_precs)

conda_linked_somewhere ==
    \E setup \in Range(prefix_setups) :
        on_conda_prefix(setup) /\ "conda" \in names_of(setup.link_precs)

\* C4, as claimed: transaction-level verification emits the RemoveError about conda for
\* every setup on root_prefix or root_prefix/envs/_conda_ that unlinks conda and does
\* not link conda in that same prefix.
C4_remove_error_per_prefix ==
    verify_checked =>
        \A setup \in Range(prefix_setups) :
            (on_conda_prefix(setup) /\ "conda" \in names_of(setup.unlink_precs)
               /\ "conda" \notin names_of(setup.link_precs))
            => RemoveError_conda \in errors_returned

\* C4, amended: transaction-level verification emits the RemoveError about conda, once,
\* exactly when some setup on one of conda's two prefixes unlinks conda and no setup on
\* either of them links conda.
C4_remove_error_transaction_wide ==
    verify_checked =>
        Cardinality({i \in DOMAIN verify_out.errors : verify_out.errors[i] = RemoveError_conda})
          = (IF conda_unlinked_somewhere /\ ~conda_linked_somewhere THEN 1 ELSE 0)

C4_witness ==
    /\ verify_checked
    /\ conda_unlinked_somewhere
    /\ ~conda_linked_somewhere
    /\ RemoveError_conda \in errors_returned

\* the conda that is installed after the transaction: the first one a setup of conda's
\* prefixes links, or else the one installed in context.conda_prefix
surviving_conda ==
    LET pairs == conda_link_pairs(SelectSeq(prefix_setups, on_conda_prefix))
        kept == PrefixData_get(context.conda_prefix, "conda")
        at(prefix) == {setup \in Range(prefix_setups) : setup.target_prefix = prefix}
    IN IF pairs # <<>>
       THEN [prec |-> pairs[1].prec, prefix |-> pairs[1].setup.target_prefix,
             setups |-> {pairs[1].setup}]
       ELSE IF kept # "None" /\ ~conda_unlinked_somewhere
            THEN [prec |-> kept, prefix |-> context.conda_prefix,
                  setups |-> at(context.conda_prefix)]
            ELSE [prec |-> "None", prefix |-> "None", setups |-> {}]

\* the dependency is not installed in the prefix of the surviving conda afterwards
missing_after(dep_name) ==
    LET c == surviving_conda
        installed_now == {prec_name(d) : d \in Range(iter_records(c.prefix))}
    IN /\ \A setup \in c.setups : dep_name \notin names_of(setup.link_precs)
       /\ \/ dep_name \notin installed_now
          \/ \E setup \in c.setups : dep_name \in names_of(setup.unlink_precs)

\* C5: for the conda that is installed after the transaction, re-linked or kept,
\* transaction-level verification emits a RemoveError naming every dependency of it
\* that is not installed in its prefix after the transaction.
C5_dependency_remove_error ==
    (verify_checked /\ surviving_conda.prec # "None") =>
        \A dep \in Range(prec_depends(surviving_conda.prec)) :
            missing_after(MatchSpec_name(dep))
            => RemoveError_dependency(MatchSpec_name(dep)) \in errors_returned

\* C6: when the transaction-level checks yield an error, _verify returns exactly their
\* errors and runs no per-action and no per-prefix check; when they yield none, it
\* returns every error of the per-action and per-prefix checks of every prefix.
C6_levels_of_verify ==
    [][(last_call'.op = "verify" /\ "check" \in last_call'.work) =>
         LET transaction_errors == _verify_transaction_level(prefix_setups)
             groups == prepare_groups
             individual == [i \in DOMAIN groups |-> _verify_individual_level(groups[i])]
             prefix_level == [i \in DOMAIN groups |->
                                _verify_prefix_level(prefix_setups[i].target_prefix,
                                                     groups[i])]
         IN IF transaction_errors # <<>>
            THEN /\ verify_out'.errors = transaction_errors
                 /\ verify_out'.verify_calls = {}
                 /\ verify_out'.prefix_checks = {}
            ELSE /\ \A i \in DOMAIN groups :
                        Range(individual[i]) \cup Range(prefix_level[i])
                          \subseteq Range(verify_out'.errors)
                 /\ Len(verify_out'.errors) = Len(concat(individual)) + Len(concat(prefix_level))
                 /\ verify_out'.prefix_checks = SetupPrefixes]_vars

C6_witness ==
    /\ verify_checked
    /\ \E e \in errors_returned : e.type = "SafetyError"
    /\ \E e \in errors_returned : e.type = "UnknownPackageClobberError"

\* the <<path, package>> pairs the link, entry point and compile actions of a prefix
\* create; directory links and non-admin markers create none
created_by(prefix_action_group) ==
    LET groups == prefix_action_group.link_action_groups
                    \o prefix_action_group.entry_point_action_groups
                    \o prefix_action_group.compile_action_groups
        axns == UNION {Range(groups[i].actions) : i \in DOMAIN groups}
    IN UNION {IF axn.cls = "CompileMultiPycAction"
              THEN {<<q, axn.pkg>> : q \in Range(axn.target_short_paths)}
              ELSE IF axn.cls = "CreateNonadminAction" \/ axn.link_type = "directory"
                   THEN {}
                   ELSE {<<axn.target_short_path, axn.pkg>>} : axn \in axns}

same_path(p, q) == lower_on_win(p) = lower_on_win(q)

being_unlinked(prefix_action_group, path) ==
    \E i \in DOMAIN prefix_action_group.unlink_action_groups :
        \E axn \in Range(prefix_action_group.unlink_action_groups[i].actions) :
            axn.cls = "UnlinkPathAction" /\ same_path(axn.target_short_path, path)

\* the installed records that list the path (the same file on Windows, whatever the case)
owners(prefix, path) ==
    {rec \in Range(iter_records(prefix)) :
        \E f \in Range(record_files(rec)) : same_path(f, path)}

clobber_errors_for(prefix, type, c) ==
    {e \in errors_returned : /\ e.type = type
                             /\ e.prefix = prefix
                             /\ same_path(e.path, c[1])
                             /\ e.pkgs[1] = c[2]}

\* C7: for every path the transaction creates in a prefix, prefix-level verification
\* emits a KnownPackageClobberError naming the owner when the path exists, is not being
\* unlinked and an installed record lists it, an UnknownPackageClobberError when it
\* exists, is not being unlinked and no installed record lists it, and neither error
\* when the path does not exist or is being unlinked.
C7_clobber_errors ==
    verify_checked =>
        \A i \in DOMAIN prefix_action_groups :
            LET prefix == prefix_setups[i].target_prefix
                group == prefix_action_groups[i]
            IN prefix \in verify_out.prefix_checks =>
                 \A c \in created_by(group) :
                    LET known == clobber_errors_for(prefix, "KnownPackageClobberError", c)
                        unknown == clobber_errors_for(prefix, "UnknownPackageClobberError", c)
                    IN IF lexists(prefix, c[1]) /\ ~being_unlinked(group, c[1])
                       THEN IF owners(prefix, c[1]) # {}
                            THEN \E e \in known : e.pkgs[2] \in owners(prefix, c[1])
                            ELSE unknown # {}
                       ELSE known = {} /\ unknown = {}

shared_errors_for(prefix, path) ==
    {e \in errors_returned : /\ e.type = "SharedLinkPathClobberError"
                             /\ e.prefix = prefix
                             /\ same_path(e.path, path)}

creators(prefix_action_group, path) ==
    {c \in created_by(prefix_action_group) : same_path(c[1], path)}

\* the link actions of a prefix
link_actions_of(prefix_action_group) ==
    UNION {Range(prefix_action_group.link_action_groups[i].actions) :
             i \in DOMAIN prefix_action_group.link_action_groups}

shared_error_iff_shared(prefix, group) ==
    \A c \in created_by(group) :
        /\ shared_errors_for(prefix, c[1]) # {} <=> Cardinality(creators(group, c[1])) > 1
        /\ \A e \in shared_errors_for(prefix, c[1]) :
              Range(e.pkgs) = {d[2] : d \in creators(group, c[1])}

\* C8, as claimed: prefix-level verification emits a SharedLinkPathClobberError for a
\* path, listing every contributing package, exactly when more than one action creates
\* the path; so when it emits none, no two distinct link actions of the prefix have
\* the same target short path.
C8_no_two_link_actions_share ==
    verify_checked =>
        \A i \in DOMAIN prefix_action_groups :
            LET prefix == prefix_setups[i].target_prefix
                group == prefix_action_groups[i]
            IN prefix \in verify_out.prefix_checks =>
                 /\ shared_error_iff_shared(prefix, group)
                 /\ (\A e \in errors_returned : e.type # "SharedLinkPathClobberError")
                    => \A a, b \in link_actions_of(group) :
                          a # b => a.target_short_path # b.target_short_path

\* C8, amended: the same for the paths of file link, entry point and compile actions
\* (compared without case on Windows); when no SharedLinkPathClobberError is emitted,
\* no two distinct actions of the prefix that are not directory links or non-admin
\* markers create the same path.
C8_no_two_file_actions_share ==
    verify_checked =>
        \A i \in DOMAIN prefix_action_groups :
            LET prefix == prefix_setups[i].target_prefix
                group == prefix_action_groups[i]
            IN prefix \in verify_out.prefix_checks =>
                 /\ shared_error_iff_shared(prefix, group)
                 /\ (\A e \in errors_returned : e.type # "SharedLinkPathClobberError")
                    => \A c, d \in created_by(group) : c # d => ~same_path(c[1], d[1])

C8_witness ==
    /\ verify_checked
    /\ \E e \in errors_returned :
          e.type = "SharedLinkPathClobberError" /\ e.pkgs = <<"b-1", "c-1">>

(***************************************************************************)
(* Properties of the facade and of the executor, checked under Spec.       *)
(***************************************************************************)
executing == ex.pc # "idle"

\* the files and package records among the paths of a prefix
files_of(paths) == paths \ Directories

reverse_raised == \E i \in DOMAIN ex.raised : ex.raised[i].type = "ReverseError"

\* C1: when execute() has raised with rollback enabled (and no reverse() raised), the
\* files and package records of every prefix of the transaction are those that were
\* there before execute() started, whichever step failed.
C1_rollback_restores ==
    (ex.pc = "raised" /\ context.rollback_enabled /\ ~reverse_raised) =>
        \A p \in SetupPrefixes : files_of(disk[p]) = files_of(ex.snapshot[p])

groups_of_type(type) == Range(group_ids(type))

ran(g, name) == \E s \in ex.scripts : s[1] = g /\ s[2] = name

has_started(gs) == \E e \in ex.started : e[1] \in gs

\* the post scripts of these groups have run, where the package has one
post_scripts_finished(gs, name) ==
    \A g \in gs : name \in prec_scripts(group_of(g).pkg_data) => ran(g, name)

block2_groups ==
    groups_of_type("entry_point") \cup groups_of_type("record")
      \cup (IF ex.composite # <<>> THEN {0} ELSE {})

link_side_started ==
    \/ \E s \in ex.scripts : s[2] \in {"pre-link", "post-link"}
    \/ has_started(groups_of_type("link") \cup block2_groups \cup groups_of_type("register"))

\* C2: in every run of execute() the unlink actions, post-unlink scripts and unregister
\* actions have finished before a pre-link script or link action starts; every link
\* group has finished before the first post-link script starts; every post-link script
\* has finished before an entry point group, the aggregated compile action or a record
\* group starts; no register action starts before all of those have finished.
C2_phase_order ==
    executing =>
        /\ link_side_started =>
              /\ groups_of_type("unlink") \cup groups_of_type("unregister") \subseteq ex.done
              /\ post_scripts_finished(groups_of_type("unlink"), "post-unlink")
        /\ (\E s \in ex.scripts : s[2] = "post-link") =>
              groups_of_type("link") \subseteq ex.done
        /\ has_started(block2_groups) =>
              /\ groups_of_type("link") \subseteq ex.done
              /\ post_scripts_finished(groups_of_type("link"), "post-link")
        /\ has_started(groups_of_type("register")) =>
              /\ groups_of_type("link") \cup block2_groups \subseteq ex.done
              /\ post_scripts_finished(groups_of_type("link"), "post-link")

C2_witness ==
    /\ ex.pc = "returned"
    /\ has_started(groups_of_type("unlink"))
    /\ has_started(groups_of_type("link"))
    /\ has_started({0})
    /\ has_started(groups_of_type("register"))
    /\ \E s \in ex.scripts : s[2] = "post-link"

\* every path the transaction creates was absent when execute() started, or is being
\* unlinked
created_paths_free ==
    \A i \in DOMAIN prefix_action_groups :
        \A c \in created_by(prefix_action_groups[i]) :
            \/ c[1] \notin ex.snapshot[prefix_setups[i].target_prefix]
            \/ being_unlinked(prefix_action_groups[i], c[1])

\* C3, as claimed: whenever execute() starts running scripts or actions, every
\* non-directory path a link, entry point or compile action creates in a prefix is
\* absent from the prefix or is the target of an unlink action for that prefix, under
\* every configuration under which verify() returns normally.
C3_created_paths_free_always == executing => created_paths_free

\* C3, amended: the same, whenever the last run of _verify returned no error (with
\* safety_checks disabled verify() returns normally without running _verify).
C3_created_paths_free_when_checked ==
    (executing /\ verify_out.transaction_level /\ verify_out.errors = <<>>)
    => created_paths_free

C3_witness ==
    /\ executing
    /\ verify_out.transaction_level
    /\ verify_out.errors = <<>>
    /\ \E i \in DOMAIN prefix_action_groups :
          \E c \in created_by(prefix_action_groups[i]) :
              /\ c[1] \in ex.snapshot[prefix_setups[i].target_prefix]
              /\ being_unlinked(prefix_action_groups[i], c[1])

\* C9: in any sequence of calls each phase does its work at most once: an executed
\* fetcher is not executed again, a later prepare() does not rebuild the action
\* groups, and after a successful verify() a later verify() runs no check and a later
\* execute() does not verify again.
C9_each_phase_once ==
    [][(Idle /\ last_call' # last_call) =>
         /\ pfe_executed => "fetch" \notin last_call'.work
         /\ prepared => "plan" \notin last_call'.work
         /\ verified => "check" \notin last_call'.work]_vars

\* C10: with context.dry_run set, execute() fails by assertion before any script is run
\* and before any action is executed, prepared or not, verified or not, whatever
\* safety_checks is.
C10_dry_run_execute_fails ==
    (last_call.op = "execute" /\ last_call.dry_run) =>
        /\ last_call.result = "AssertionError"
        /\ ~executing
        /\ ex.scripts = {} /\ ex.started = {}

C10_witness ==
    /\ last_call.op = "execute"
    /\ last_call.dry_run
    /\ verified
    /\ last_call.result = "AssertionError"

(***************************************************************************)
(* The records of conda-meta after a successful execute().                 *)
(***************************************************************************)
returned_ok == ex.pc = "returned"

has_record(prefix, d) == meta_short_path(d) \in disk[prefix]

link_precs_recorded ==
    \A i \in DOMAIN prefix_setups :
        \A d \in Range(prefix_setups[i].link_precs) :
            has_record(prefix_setups[i].target_prefix, d)

\* C11, as claimed: after every execute() that returns successfully, in every prefix
\* each prec of link_precs has its conda-meta record and each prec of unlink_precs has
\* none.
C11_records_after_execute ==
    returned_ok =>
        /\ link_precs_recorded
        /\ \A i \in DOMAIN prefix_setups :
              \A d \in Range(prefix_setups[i].unlink_precs) :
                  ~has_record(prefix_setups[i].target_prefix, d)

\* C11, amended: each prec of link_precs has its record, and each prec of unlink_precs
\* that is not linked again by the same setup has none.
C11_records_unless_relinked ==
    returned_ok =>
        /\ link_precs_recorded
        /\ \A i \in DOMAIN prefix_setups :
              \A d \in Range(prefix_setups[i].unlink_precs)
                          \ Range(prefix_setups[i].link_precs) :
                  ~has_record(prefix_setups[i].target_prefix, d)

C11_witness ==
    /\ returned_ok
    /\ \E i \in DOMAIN prefix_setups :
         /\ prefix_setups[i].link_precs # <<>>
         /\ Range(prefix_setups[i].unlink_precs) \ Range(prefix_setups[i].link_precs) # {}
         /\ \A d \in Range(prefix_setups[i].unlink_precs) :
               meta_short_path(d) \in ex.snapshot[prefix_setups[i].target_prefix]

(***************************************************************************)
(* The scratch directories.                                                *)
(***************************************************************************)
\* execute() has returned or raised
execute_exited == last_call.op = "execute" /\ last_call.result # "running"

\* C12: on every exit path of execute() the scratch directory .condatmp of every prefix
\* of the transaction has been removed when execute() returns or raises.
C12_scratch_removed ==
    execute_exited => \A p \in SetupPrefixes : temp_dir_name \notin disk[p]

(***************************************************************************)
(* verify() with errors (checked under SpecFacade).                        *)
(***************************************************************************)
verify_raised == last_call.op = "verify" /\ last_call.result = "CondaMultiError"

temp_dir_removed == temp_dir_name \notin disk[transaction_context.temp_dir]

\* execute() called after a verify() that raised runs _verify again, and starts
\* _execute only when the errors of that run do not raise
execute_verifies_again ==
    (Idle /\ verify_raised /\ last_call'.op = "execute") =>
        /\ "check" \in last_call'.work
        /\ ex'.pc # "idle" => ~maybe_raise(verify_out'.errors)

\* C13, as claimed: when verify() has collected errors the scratch temp_dir is removed
\* and the errors go through maybe_raise; a verify() that raised leaves the transaction
\* not verified, and a later execute() verifies again before any script or action.
C13_errors_remove_temp_dir ==
    /\ [](verify_checked /\ verify_out.errors # <<>> =>
             /\ temp_dir_removed
             /\ (last_call.result = "CondaMultiError") = maybe_raise(verify_out.errors)
             /\ verify_raised => ~verified)
    /\ [][execute_verifies_again]_vars

\* C13, amended: the errors go through maybe_raise; when it raises, the temp_dir has
\* been removed and the transaction stays not verified, and a later execute() verifies
\* again; when it demotes them to warnings verify() returns normally, the transaction
\* is verified and the temp_dir is left for execute().
C13_raise_removes_temp_dir ==
    /\ [](verify_checked =>
             /\ (last_call.result = "CondaMultiError") = maybe_raise(verify_out.errors)
             /\ verify_raised => temp_dir_removed /\ ~verified
             /\ ~verify_raised => verified)
    /\ [][execute_verifies_again]_vars

C13_witness ==
    /\ last_call.op = "execute"
    /\ last_call.result = "CondaMultiError"
    /\ "check" \in last_call.work
    /\ "plan" \notin last_call.work
    /\ ~verified
    /\ temp_dir_removed
    /\ \E i \in DOMAIN verify_out.errors : verify_out.errors[i].type = "SafetyError"

(***************************************************************************)
(* Failures of execute() and the rollback (checked under Spec).            *)
(***************************************************************************)
execute_raised == ex.pc = "raised"

reverse_called(g, a) == \E i \in DOMAIN ex.reversed : ex.reversed[i] = <<g, a>>

\* every action of all_action_groups that was executed has had reverse() called
started_reversed == \A c \in ex.started : c[1] # 0 => reverse_called(c[1], c[2])

pre_link_failed == \E c \in ex.scripts : c[2] = "pre-link" /\ c[3] = "failed"

\* C14: when execute() has raised, the failure was captured as an aggregate of the
\* primary error, the failing group and the errors of its reverse, and with rollback
\* enabled every executed action has had reverse() called before execute() raised;
\* this for a failing action, a failing post-link script and a failing pre-link script.
C14_failures_captured ==
    execute_raised =>
        /\ ex.exceptions # <<>>
        /\ ex.raised[1] = ex.exceptions[1].error
        /\ context.rollback_enabled => started_reversed

script_failed(names) == {c \in ex.scripts : c[2] \in names /\ c[3] = "failed"}

link_error_of(g) == [type |-> "LinkError", g |-> g, a |-> 0]

reverse_calls_on(g) == SelectSeq(ex.reversed, LAMBDA c : c[1] = g)

\* reverse() on the actions k, k-1, ..., 1 of group g (actions are counted from 1)
descending_from(g, k) == [j \in 1..k |-> <<g, k + 1 - j>>]

\* the groups whose action raised in execute(), with the number of that action
execute_failures ==
    {e \in {ex.exceptions[i].error : i \in DOMAIN ex.exceptions} : e.type = "ExecuteError"}

\* C16: with rollback enabled, when action k of a group has raised in execute(), the
\* group's own reverse has called reverse() on the actions k, k-1, ..., first of the
\* group, in that order, and on no action after k.  (Stated before the rollback of the
\* executor, which visits the group again.)
C16_self_reverse_from_failed ==
    (executing /\ ~execute_raised /\ context.rollback_enabled) =>
        \A e \in execute_failures :
            script_failed({"post-link"}) = {} =>
                reverse_calls_on(e.g) = descending_from(e.g, e.a)

\* the groups the executor has started to execute
groups_started == ex.done \cup {c[1] : c \in ex.started}

\* C17: reverse() is called only on actions of groups the executor had started to
\* execute; a group still pending when the failure was recorded has reverse() called
\* on none of its actions.
C17_only_started_groups_reversed ==
    executing => \A c \in Range(ex.reversed) : c[1] \in groups_started

\* the reverse() calls of the rollback loop of _execute, in a step that runs it
rollback_calls == SubSeq(ex'.reversed, Len(ex.reversed) + 1, Len(ex'.reversed))

rollback_step == ex.pc = "register" /\ ex'.pc = "raised" /\ context.rollback_enabled

type_of_call(c) == all_action_groups[c[1]].type

\* the place of a group type in the order of execution: the unlink groups, the
\* unregister groups, the link groups, block 2, the register groups
execution_rank(type) ==
    CASE type = "unlink" -> 1
      [] type = "unregister" -> 2
      [] type = "link" -> 3
      [] type \in {"entry_point", "compile", "record"} -> 4
      [] type = "register" -> 5

\* the place of a group type in all_action_groups
list_rank(type) ==
    CASE type = "unlink" -> 1
      [] type = "unregister" -> 2
      [] type = "link" -> 3
      [] type = "register" -> 4
      [] type = "compile" -> 5
      [] type = "entry_point" -> 6
      [] type = "record" -> 7

\* within a group the actions are reversed from the last to the first, and a group is
\* visited once
actions_descending(calls) ==
    \A i, j \in DOMAIN calls :
        (i < j /\ calls[i][1] = calls[j][1]) =>
            /\ calls[i][2] > calls[j][2]
            /\ \A k \in i..j : calls[k][1] = calls[i][1]

\* C18, as claimed: the rollback visits the groups in the reverse of the order of
\* execution, register groups first, then record, compile and entry point groups, then
\* link groups, then unregister groups, then unlink groups, and within a group the
\* actions from last to first.
C18_rollback_reverses_execution ==
    [][rollback_step =>
         /\ actions_descending(rollback_calls)
         /\ \A i, j \in DOMAIN rollback_calls :
               i < j => execution_rank(type_of_call(rollback_calls[i]))
                          >= execution_rank(type_of_call(rollback_calls[j]))]_vars

\* C18, amended: the rollback visits the groups in the reverse of their order in
\* all_action_groups: record groups first, then entry point, compile, register, link,
\* unregister and unlink groups, and within a group the actions from last to first.
C18_rollback_reverses_list ==
    [][rollback_step =>
         /\ actions_descending(rollback_calls)
         /\ \A i, j \in DOMAIN rollback_calls :
               i < j => /\ rollback_calls[i][1] >= rollback_calls[j][1]
                        /\ list_rank(type_of_call(rollback_calls[i]))
                             >= list_rank(type_of_call(rollback_calls[j]))]_vars

reversed_types == {type_of_call(c) : c \in Range(ex.reversed)}

C18_witness ==
    /\ execute_raised
    /\ context.rollback_enabled
    /\ ex.exceptions # <<>>
    /\ {"record", "register", "link", "unlink"} \subseteq reversed_types

\* the exceptions reverse() raised during the rollback loop, as execute() raises them:
\* they follow the primary error and the errors of the self-reverse of its group
raised_by_rollback ==
    {i \in DOMAIN ex'.raised :
        /\ i > 1 + Len(ex.exceptions[1].reverse_excs)
        /\ ex'.raised[i].type = "ReverseError"}

\* C19: a reverse() that raises does not stop the rollback: the rollback loop calls
\* reverse() on every action of every group it visits, and every exception a reverse()
\* raised in the loop is in the aggregate execute() raises.
C19_rollback_goes_on ==
    [][rollback_step =>
         /\ \A g \in DOMAIN all_action_groups :
               \A a \in DOMAIN all_action_groups[g].actions :
                   \E i \in DOMAIN rollback_calls : rollback_calls[i] = <<g, a>>
         /\ Cardinality(raised_by_rollback) = ex'.nrevfail - ex.nrevfail
         /\ \A i \in raised_by_rollback :
               \E j \in DOMAIN rollback_calls :
                   rollback_calls[j] = <<ex'.raised[i].g, ex'.raised[i].a>>]_vars

\* a reverse() of the rollback loop has raised, on a group that is not the last one
\* the loop visits
C19_witness ==
    /\ execute_raised
    /\ context.rollback_enabled
    /\ ex.exceptions # <<>>
    /\ \E i \in DOMAIN ex.raised :
         /\ ex.raised[i].type = "ReverseError"
         /\ i > 1 + Len(ex.exceptions[1].reverse_excs)
         /\ ex.raised[i].g > 1

primary_errors == {ex.exceptions[i].error : i \in DOMAIN ex.exceptions}

\* C20, as claimed: when several groups have failed in one execute(), the aggregate
\* execute() raises contains the primary exception of every one of them.
C20_every_primary_raised ==
    (execute_raised /\ ex.exceptions # <<>>) => primary_errors \subseteq Range(ex.raised)

\* C20, amended: the aggregate contains the primary exception of the first failure
\* recorded and of no other, followed by the errors of the self-reverse of that group
\* and of the rollback.
C20_first_primary_raised ==
    (execute_raised /\ ex.exceptions # <<>>) =>
        /\ ex.raised[1] = ex.exceptions[1].error
        /\ \A i \in DOMAIN ex.raised : i > 1 => ex.raised[i].type = "ReverseError"
        /\ Range(ex.raised) \cap primary_errors = {ex.exceptions[1].error}

C20_witness ==
    /\ execute_raised
    /\ Len(ex.exceptions) >= 2
    /\ ex.exceptions[1].group # ex.exceptions[2].group

(***************************************************************************)
(* Scripts, the aggregated compile action, the writers of conda-meta       *)
(* (checked under Spec).                                                   *)
(***************************************************************************)
\* the groups of a type whose package ships the script, in the order of the groups
scripted(type, name) ==
    SelectSeq(group_ids(type), LAMBDA g : name \in prec_scripts(all_action_groups[g].pkg_data))

\* the scripts that have run are those of the first groups of the sequence
in_group_order(type, name) ==
    LET seq == scripted(type, name)
    IN \A k \in DOMAIN seq : ran(seq[k], name) => \A j \in 1..(k - 1) : ran(seq[j], name)

scripts_serial(type, pre, post) ==
    /\ in_group_order(type, pre)
    /\ in_group_order(type, post)
    /\ has_started(groups_of_type(type)) =>
           \A g \in Range(scripted(type, pre)) : ran(g, pre)
    /\ (\E g \in groups_of_type(type) : ran(g, post)) =>
           groups_of_type(type) \subseteq ex.done

\* C21: in each phase the pre-scripts of the groups run in group order and all of
\* them have finished before any action of the phase executes; the post-scripts run in
\* the same group order, after every group of the parallel block before them has
\* finished.
C21_scripts_serial ==
    executing =>
        /\ scripts_serial("unlink", "pre-unlink", "post-unlink")
        /\ scripts_serial("link", "pre-link", "post-link")

\* two groups of the unlink phase have run their pre-scripts and an action has started
C21_witness ==
    /\ executing
    /\ \E g, h \in groups_of_type("unlink") :
          g # h /\ ran(g, "pre-unlink") /\ ran(h, "pre-unlink")
    /\ has_started(groups_of_type("unlink"))

\* the compile actions of the compile groups, in the order of the groups
individual_compile_actions ==
    concat(Map(group_ids("compile"), LAMBDA g : all_action_groups[g].actions))

aggregate_started == <<0, 1>> \in ex.started

\* C22: when the compile groups hold n > 0 compile actions, one aggregated compile
\* action that wraps all of them in group order is submitted in block 2 of the link
\* phase and executed there, and no compile group is executed on its own; when n = 0 no
\* compile action is submitted.
C22_one_aggregate_compile ==
    executing =>
        /\ IF individual_compile_actions # <<>>
           THEN /\ Len(ex.composite) = 1
                /\ Len(ex.composite[1].actions) = 1
                /\ ex.composite[1].actions[1].cls = "AggregateCompileMultiPycAction"
                /\ ex.composite[1].actions[1].all_link_path_actions
                     = individual_compile_actions
                /\ returned_ok => aggregate_started
           ELSE ex.composite = <<>> /\ ~aggregate_started /\ 0 \notin DOMAIN ex.tasks
        /\ 0 \in DOMAIN ex.tasks => ex.pc = "block2" /\ ex.phase = 2
        /\ aggregate_started => ex.phase = 2 /\ ex.pc \notin {"pre", "block1", "post"}
        /\ groups_of_type("compile") \cap (groups_started \cup DOMAIN ex.tasks) = {}

C22_witness ==
    /\ returned_ok
    /\ Len(individual_compile_actions) = 2
    /\ aggregate_started

(***************************************************************************)
(* A signal during execute() (checked under SpecSignal).                   *)
(***************************************************************************)
\* C23: when a termination signal has interrupted execute() while it was running
\* scripts or actions, then with rollback enabled the executor has run the rollback it
\* runs for an action error (reverse() on every executed action) before execute()
\* raises its aggregate.
C23_signal_rolls_back ==
    (execute_exited /\ ex.signal = "raised" /\ context.rollback_enabled) =>
        /\ last_call.result = "CondaMultiError"
        /\ started_reversed

(***************************************************************************)
(* A transaction and its inverse (checked under SpecInverse).              *)
(***************************************************************************)
inverse_returned == ex.inverse /\ returned_ok

\* the files and package records of a prefix, its history file aside
prefix_contents(paths) == files_of(paths) \ {PREFIX_MAGIC_FILE}

clobbered_paths(p) ==
    UNION {(UNION {Range(record_files(d)) : d \in Range(prefix_setups[i].unlink_precs)}
              \ UNION {Range(record_files(d)) : d \in Range(prefix_setups[i].link_precs)})
             \cap ex.origin[p] :
           i \in {j \in DOMAIN prefix_setups : prefix_setups[j].target_prefix = p}}

writes_record(axn) ==
    axn.cls \in {"CreatePrefixRecordAction", "RemoveLinkedPackageRecordAction"}

\* the action the thread of an unfinished task of a parallel block is at
action_in_flight(g) == group_of(g).actions[IF ex.tasks[g] = -1 THEN 1 ELSE ex.tasks[g] + 1]

in_flight(g) ==
    /\ ex.pc \in {"block1", "block2"}
    /\ g \in DOMAIN ex.tasks
    /\ group_of(g).actions # <<>>
    /\ ~finished(g)

\* C25: at no moment of execute() are two actions that write conda-meta/*.json of the
\* same prefix (create-prefix-record or remove-prefix-record actions) in flight at
\* once in two threads of a parallel block.
C25_record_writes_serialized ==
    \A g, h \in DOMAIN ex.tasks :
        (g # h /\ in_flight(g) /\ in_flight(h)
           /\ writes_record(action_in_flight(g)) /\ writes_record(action_in_flight(h)))
        => action_in_flight(g).target_prefix # action_in_flight(h).target_prefix

(***************************************************************************)
(* What prepare() and verify() leave in the prefixes (checked under        *)
(* SpecVerify).                                                            *)
(***************************************************************************)
prepare_or_verify_called == last_call.op \in {"prepare", "verify"}

summary_printed == last_call.op = "print_transaction_summary"

\* the last prec of the name among the precs
prec_named(precs, k) ==
    precs[CHOOSE i \in DOMAIN precs :
            prec_name(precs[i]) = k /\ \A j \in DOMAIN precs : prec_name(precs[j]) = k => j <= i]

\* the categories of the report that list the namekey
categories(report, k) ==
    {c \in {"removed", "new", "updated", "downgraded", "superseded"} :
        k \in DOMAIN (CASE c = "removed" -> report.removed_precs
                        [] c = "new" -> report.new_precs
                        [] c = "updated" -> report.updated_precs
                        [] c = "downgraded" -> report.downgraded_precs
                        [] c = "superseded" -> report.superseded_precs)}

\* the category the claim gives a name that is unlinked and linked
category_of_change(u, l) ==
    IF \/ VersionOrder(prec_version(l)) > VersionOrder(prec_version(u))
       \/ /\ VersionOrder(prec_version(l)) = VersionOrder(prec_version(u))
          /\ prec_build_number(l) > prec_build_number(u)
    THEN {"updated"}
    ELSE IF prec_channel_name(l) = prec_channel_name(u) /\ prec_subdir(l) = prec_subdir(u)
    THEN IF prec_eq(l, u) THEN {} ELSE {"downgraded"}
    ELSE {"superseded"}

pythons_in(precs) == SelectSeq(precs, LAMBDA d : prec_name(d) = "python")

\* the python whose record the prefix held before the call, if any
installed_pythons(prefix) == {d \in Pythons : meta_short_path(d) \in ex.origin[prefix]}

major_minor_of(d) ==
    CASE d = "python-2.7.15" -> "2.7"
      [] d = "python-3.7.1" -> "3.7"
      [] d = "python-3.10.2" -> "3.10"

\* C28: the target python version the planner chooses for a prefix is the major.minor
\* of the link prec named python if there is one; otherwise that of the python
\* installed in the prefix if no prec named python is unlinked; otherwise none.
C28_target_python_version ==
    last_call.op = "prepare" =>
        LET stp == prefix_setups[1]
            linked == pythons_in(stp.link_precs)
            installed == installed_pythons(stp.target_prefix)
        IN transaction_context.target_python_version =
             IF linked # <<>> THEN major_minor_of(linked[1])
             ELSE IF installed # {} /\ pythons_in(stp.unlink_precs) = <<>>
             THEN major_minor_of(CHOOSE d \in installed : TRUE)
             ELSE "None"

\* the prefix has python 3.10, the transaction unlinks and links other packages only
C28_witness ==
    /\ last_call.op = "prepare"
    /\ installed_pythons(other_prefix) = {"python-3.10.2"}
    /\ prefix_setups[1].unlink_precs = <<"dep-1">>
    /\ prefix_setups[1].link_precs = <<"dep-1">>
    /\ transaction_context.target_python_version = "3.10"

(***************************************************************************)
(* The actions of an unlink group (checked under SpecPlan).                *)
(***************************************************************************)
unlink_kind(axn) ==
    CASE axn.cls = "RemoveMenuAction" -> "menu"
      [] axn.cls = "UnlinkPathAction" /\ axn.link_type = "directory" -> "directory"
      [] axn.cls = "UnlinkPathAction" -> "file"
      [] axn.cls = "RemoveLinkedPackageRecordAction" -> "record"
      [] OTHER -> "other"

\* the actions are of the four kinds, in the order of the kinds given
kinds_in_order(actions, order) ==
    /\ \A i \in DOMAIN actions : \E r \in DOMAIN order : unlink_kind(actions[i]) = order[r]
    /\ \A i, j \in DOMAIN actions :
         i < j => \A r, q \in DOMAIN order :
                    (unlink_kind(actions[i]) = order[r] /\ unlink_kind(actions[j]) = order[q])
                    => r <= q

\* one unlink-path action per file of the record, in the order of the record, and one
\* remove-prefix-record action, for conda-meta/<dist>.json, at the end
files_and_record(grp) ==
    LET files == SelectSeq(grp.actions, LAMBDA axn : unlink_kind(axn) = "file")
        last == grp.actions[Len(grp.actions)]
    IN /\ [i \in DOMAIN files |-> files[i].target_short_path] = record_files(grp.pkg_data)
       /\ Cardinality({i \in DOMAIN grp.actions : unlink_kind(grp.actions[i]) = "record"}) = 1
       /\ unlink_kind(last) = "record"
       /\ last.target_short_path = meta_short_path(grp.pkg_data)

planned_unlink_groups ==
    UNION {Range(prefix_action_groups[i].unlink_action_groups) :
             i \in DOMAIN prefix_action_groups}

\* C29, as claimed: the actions the planner builds for one unlink prec are the
\* unlink-path actions of the files of the record, then the remove-menu actions, then
\* the directory removals, and last the one remove-prefix-record action.
C29_unlink_actions_order ==
    prepared =>
        \A grp \in planned_unlink_groups :
            /\ files_and_record(grp)
            /\ kinds_in_order(grp.actions, <<"file", "menu", "directory", "record">>)

\* C29, amended: the remove-menu actions come first, then the unlink-path actions of
\* the files of the record, then the directory removals, and last the one
\* remove-prefix-record action.
C29_unlink_actions_menu_first ==
    prepared =>
        \A grp \in planned_unlink_groups :
            /\ files_and_record(grp)
            /\ kinds_in_order(grp.actions, <<"menu", "file", "directory", "record">>)

\* an unlink group with a remove-menu action, files and directories has been planned
C29_witness ==
    /\ prepared
    /\ \E grp \in planned_unlink_groups :
         {unlink_kind(grp.actions[i]) : i \in DOMAIN grp.actions} =
            {"menu", "file", "directory", "record"}

(***************************************************************************)
(* Paths on Windows (checked under SpecVerify).                            *)
(***************************************************************************)
clobber_errors_of(prefix, c) ==
    clobber_errors_for(prefix, "KnownPackageClobberError", c)
      \cup clobber_errors_for(prefix, "UnknownPackageClobberError", c)

\* a path that is being unlinked, whatever its case, is no clobber
unlink_test_ignores_case(prefix, group) ==
    \A c \in created_by(group) :
        being_unlinked(group, c[1]) => clobber_errors_of(prefix, c) = {}

\* two paths created that differ in case only are a shared path
link_test_ignores_case(prefix, group) ==
    \A c, d \in created_by(group) :
        (c # d /\ same_path(c[1], d[1])) => shared_errors_for(prefix, c[1]) # {}

\* a clobbered path is of unknown origin only if no installed record lists it,
\* whatever its case
owner_lookup_ignores_case(prefix, group) ==
    \A c \in created_by(group) :
        clobber_errors_for(prefix, "UnknownPackageClobberError", c) # {}
            => owners(prefix, c[1]) = {}

\* C30: on Windows the prefix-level clobber checks compare paths without case: a link
\* path against the unlink set, two link paths against each other, and a link path
\* against the files of the installed records when the owner of a clobbered path is
\* looked up.
C30_windows_ignores_case ==
    (verify_checked /\ context.on_win) =>
        \A i \in DOMAIN prefix_action_groups :
            LET prefix == prefix_setups[i].target_prefix
                group == prefix_action_groups[i]
            IN prefix \in verify_out.prefix_checks =>
                 /\ unlink_test_ignores_case(prefix, group)
                 /\ link_test_ignores_case(prefix, group)
                 /\ owner_lookup_ignores_case(prefix, group)

(***************************************************************************)
(* The order of completion inside a parallel block (checked under Spec)    *)
(***************************************************************************)

\* the groups of parallel block 1 of a pass: submitted in the order of the list
in_block1(g) == g # 0 /\ all_action_groups[g].type \in {"unlink", "link"}

same_block1(g, h) ==
    in_block1(g) /\ in_block1(h) /\ all_action_groups[g].type = all_action_groups[h].type

\* the failures of the groups of one block 1, two groups of which have failed
block1_failure_pairs ==
    {p \in execute_failures \X execute_failures : p[1].g < p[2].g /\ same_block1(p[1].g, p[2].g)}

C31_submission_order_run ==
    execute_raised /\ \E p \in block1_failure_pairs : ex.raised[1] = p[1]

\* the failures of the groups of parallel block 1
block1_failures == {e \in execute_failures : in_block1(e.g)}

is_directory_creation(a) == a.cls = "LinkPathAction" /\ a.link_type = "directory"
is_file_link(a) == a.cls = "LinkPathAction" /\ a.link_type # "directory"

\* C32: the actions of one group are executed one at a time in the order the planner
\* emitted them: an action has been executed only after every earlier action of its
\* group, so every directory creation of a package is executed before any of its file
\* links; and once an action of a group has raised, no later action of that group is
\* executed.
C32_group_actions_in_order ==
    \A c \in ex.started :
        LET actions == group_of(c[1]).actions
        IN /\ \A j \in 1..(c[2] - 1) : <<c[1], j>> \in ex.started
           /\ is_file_link(actions[c[2]]) =>
                  \A j \in DOMAIN actions :
                      is_directory_creation(actions[j]) => <<c[1], j>> \in ex.started
           /\ \A e \in execute_failures : e.g = c[1] => c[2] <= e.a

\* a file link of a package has been executed after the creation of its directory, and
\* an action with later actions in its group has raised
C32_witness ==
    /\ \E c \in ex.started :
           LET actions == group_of(c[1]).actions
           IN /\ is_file_link(actions[c[2]])
              /\ \E j \in 1..(c[2] - 1) : is_directory_creation(actions[j])
    /\ \E e \in execute_failures : e.a < Len(group_of(e.g).actions)
    /\ all_finished

(***************************************************************************)
(* How often an action is reversed (checked under Spec)                    *)
(***************************************************************************)

\* the number of calls of reverse() on action a of group g
reverse_count(g, a) ==
    Cardinality({i \in DOMAIN ex.reversed : ex.reversed[i] = <<g, a>>})

\* C33: in a failed execute() with rollback enabled, the rollback reverses the executed
\* groups except the one that failed, which has reversed itself already: reverse() is
\* called at most once on an action.
C33_reverse_at_most_once ==
    (execute_raised /\ context.rollback_enabled) =>
        \A c \in Range(ex.reversed) : reverse_count(c[1], c[2]) <= 1

(***************************************************************************)
(* Removing conda under each setting of safety_checks.  Transactions on    *)
(* the prefixes of conda that unlink conda, a dependency of it or nothing, *)
(* with and without a conda linked in exchange; verify() and execute() are *)
(* called in any order.                                                    *)
(***************************************************************************)
InitRemoveConda ==
    /\ context \in [dry_run : {FALSE}, safety_checks : {"enabled", "warn", "disabled"},
                    rollback_enabled : {TRUE}, on_win : {FALSE},
                    conda_prefix : {root_prefix, conda_env_prefix},
                    disallowed_packages : {{}}]
    /\ \E root_unlink \in {<<>>, <<"conda-1">>, <<"conda-1", "dep-1">>},
          root_link \in {<<>>, <<"conda-2">>},
          env_setup \in {<<>>, <<PrefixSetup(conda_env_prefix, <<>>, <<"conda-2">>)>>,
                         <<PrefixSetup(conda_env_prefix, <<"conda-1">>, <<>>)>>},
          env_installed \in {{}, {"conda-1"}} :
        /\ prefix_setups = <<PrefixSetup(root_prefix, root_unlink, root_link)>> \o env_setup
        /\ disk = [p \in Prefixes |->
                     IF p = root_prefix THEN prefix_paths({"conda-1", "dep-1"}, {})
                     ELSE IF p = conda_env_prefix THEN prefix_paths(env_installed, {})
                     ELSE {}]
    /\ writable = [p \in Prefixes |-> TRUE]
    /\ cache_missing = {}
    /\ InitTransaction

SpecRemoveConda == InitRemoveConda /\ [][NextFacade]_vars

\* the transaction removes conda and links no conda in exchange
removes_conda == conda_unlinked_somewhere /\ ~conda_linked_somewhere

verify_returned_normally == last_call.op = "verify" /\ last_call.result = "ok"

downgraded_pairs ==
    UNION {{<<prec_named(prefix_setups[i].unlink_precs, k),
              prec_named(prefix_setups[i].link_precs, k)>> :
               k \in DOMAIN change_report[i].downgraded_precs} :
           i \in DOMAIN change_report}

version_or_build_lower(u, l) ==
    \/ VersionOrder(prec_version(l)) < VersionOrder(prec_version(u))
    \/ /\ VersionOrder(prec_version(l)) = VersionOrder(prec_version(u))
       /\ prec_build_number(l) < prec_build_number(u)

post_script_of(type) == IF type = "unlink" THEN "post-unlink" ELSE "post-link"

later_types_of(type) ==
    IF type = "unlink" THEN {"unregister"}
    ELSE {"entry_point", "compile", "record", "register"}

steps_after_block1(type) ==
    {s \in ex.scripts : s[2] = post_script_of(type)}
        \cup {c \in ex.started : group_of(c[1]).type \in later_types_of(type)}

\* C36: once a failure has been recorded in a pass, no further script is run and no
\* further action is executed: after a group of parallel block 1 has failed, none of
\* the steps that follow the block is taken (after a link group: no post-link script,
\* no entry-point, compile, record or register action).
C36_nothing_runs_after_failure ==
    \A e \in block1_failures :
        steps_after_block1(all_action_groups[e.g].type) = {}

\* the groups that run after block 1 in the pass the executor is in
later_groups_of_pass ==
    block2_tasks(ex.phase) \cup Range(group_ids(register_group(ex.phase)))

\* C36 (as the code has it): a failure recorded in a pass does not cut the pass short;
\* when execute() raises for a recorded failure, every group of block 2 and every
\* register group of the pass has been run.
C36_pass_completed_after_failure ==
    (execute_raised /\ ex.exceptions # <<>>) =>
        \A g \in later_groups_of_pass : g \in ex.done

\* a link group has failed, and a post-link script and a register action have run
C36_witness ==
    /\ execute_raised
    /\ \E e \in block1_failures :
         /\ all_action_groups[e.g].type = "link"
         /\ \E s \in ex.scripts : s[2] = "post-link"
         /\ \E c \in ex.started : group_of(c[1]).type = "register"

(***************************************************************************)
(* The link pass after a failure of the unlink pass (checked under Spec)   *)
(***************************************************************************)

\* the errors recorded by the unlink pass: of an unlink group, of a post-unlink script
\* (LinkError of an unlink group) or of an unregister group
unlink_pass_errors ==
    {e \in primary_errors : group_of(e.g).type \in {"unlink", "unregister"}}

link_pass_types == {"link", "entry_point", "compile", "record", "register"}

\* the steps of the link pass taken so far
link_pass_steps ==
    {s \in ex.scripts : s[2] \in {"pre-link", "post-link"}}
        \cup {c \in ex.started : group_of(c[1]).type \in link_pass_types}

\* C37: if a step of the unlink pass has recorded an error, the link pass never starts:
\* no pre-link script is run and no link, entry-point, compile, record or register
\* action is executed in that execute().
C37_no_link_pass_after_unlink_error ==
    unlink_pass_errors # {} => ex.phase = 1 /\ link_pass_steps = {}

\* execute() has raised for an error of the unlink pass of a transaction that has
\* packages to link
C37_witness ==
    /\ execute_raised
    /\ unlink_pass_errors # {}
    /\ group_ids("link") # <<>>

(***************************************************************************)
(* The context of each prefix (checked under SpecTwoPythons).              *)
(***************************************************************************)
\* the python version the planner determines for the prefix of a setup
planned_python_version(stp) ==
    LET linked == pythons_in(stp.link_precs)
        installed == installed_pythons(stp.target_prefix)
    IN IF linked # <<>> THEN major_minor_of(linked[1])
       ELSE IF installed # {} /\ pythons_in(stp.unlink_precs) = <<>>
       THEN major_minor_of(CHOOSE d \in installed : TRUE)
       ELSE "None"

\* transaction_context['target_site_packages_short_path'], written with the version
target_site_packages_short_path ==
    get_python_site_packages_short_path(transaction_context.target_python_version)

\* C38: after prepare() of a transaction with several prefixes, the target python
\* version and the site-packages path that the actions of a prefix read from the
\* transaction context are those the planner determined for that prefix.
C38_context_of_own_prefix ==
    (last_call.op = "prepare" /\ prepared) =>
        \A i \in DOMAIN prefix_setups :
            /\ transaction_context.target_python_version =
                   planned_python_version(prefix_setups[i])
            /\ target_site_packages_short_path =
                   get_python_site_packages_short_path(
                       planned_python_version(prefix_setups[i]))

====
